---- MODULE Spec2Model ----
(***************************************************************************)
(* Propagation engine of the logic-circuit simulator: the node/wire graph  *)
(* (components/Node.ts), the component recalculation contract, the ALU     *)
(* (components/ALU.ts) and the 16x4 RAM (unnamed/part_000).                *)
(*                                                                         *)
(* The program state is carried through the handlers as one record S whose *)
(* fields are the module's variables; every handler is an operator from S  *)
(* to the state it leaves behind.                                          *)
(***************************************************************************)
EXTENDS Integers, Sequences, FiniteSets, TLC

VARIABLES
    kind,            \* component -> "alu" | "ram" (resolved at construction)
    _state,          \* component -> ComponentState
    compValue,       \* component -> last committed internal value
    _lastClock,      \* component -> RAM16by4._lastClock
    _trigger,        \* component -> RAM16by4._trigger
    _isMovingWithMouseOffset,  \* component -> undefined, or the offset of a move
    _isAlive,        \* node -> NodeBase._isAlive
    _value,          \* node -> NodeBase._value (the computed value)
    _forceValue,     \* node -> NodeBase._forceValue
    id,              \* node -> NodeBase.id
    _incomingWire,   \* input node -> wire id, or null
    _outgoingWires,  \* output node -> sequence of wire ids
    liveNodes,       \* the live-node registry
    wires,           \* the Wire objects still referenced: id -> [startNode, endNode, delay]
    liveWires,       \* the wires that have not been destroyed
    now,             \* Timeline logical clock
    queue,           \* Timeline events in schedule order
    error,           \* the error raised by the last operation, "none" if none
    log              \* the last handler and the calls it made, in order

vars == <<kind, _state, _isMovingWithMouseOffset, compValue, _lastClock, _trigger, _isAlive, _value, _forceValue, id,
          _incomingWire, _outgoingWires, liveNodes, wires, liveWires,
          now, queue, error, log>>

(***************************************************************************)
(* Bounds of the model.                                                    *)
(***************************************************************************)
MaxTime == 1
MaxQueue == 2

(***************************************************************************)
(* LogicValue (utils): false, true, Unknown, HighImpedance.                *)
(***************************************************************************)
F == "false"
T == "true"
Unknown == "?"
HighImpedance == "Z"
undefined == "undefined"
null == 0

LogicValue == {F, T, Unknown, HighImpedance}

isUnknown(v) == v = Unknown
isHighImpedance(v) == v = HighImpedance
isDefined(v) == v # undefined
isUndefined(v) == v = undefined
isNull(w) == w = null

(***************************************************************************)
(* Nodes are addressed by owner, direction and index in the owner's tuple. *)
(***************************************************************************)
NoNode == <<0, "none", 0>>
InNode(c, i) == <<c, "in", i>>
OutNode(c, i) == <<c, "out", i>>
isOutput(n) == n[2] = "out"
parent(n) == n[1]

\* the components other than the ALU and the RAM are named by their numbers
\* of inputs and outputs
PlainArity ==
    [io00 |-> <<0, 0>>, io10 |-> <<1, 0>>, io01 |-> <<0, 1>>, io11 |-> <<1, 1>>,
     io20 |-> <<2, 0>>, io02 |-> <<0, 2>>, io21 |-> <<2, 1>>, io12 |-> <<1, 2>>, io22 |-> <<2, 2>>]
PlainKinds == DOMAIN PlainArity
NumInputs(k) == IF k \in PlainKinds THEN PlainArity[k][1] ELSE 11
NumOutputs(k) == IF k \in PlainKinds THEN PlainArity[k][2] ELSE IF k = "alu" THEN 6 ELSE 4

NodesOf(c, k) ==
    {InNode(c, i) : i \in 0..(NumInputs(k) - 1)} \cup {OutNode(c, i) : i \in 0..(NumOutputs(k) - 1)}

\* NodeManager.newID, for the nodes of a new component: the inputs in order,
\* then the outputs
newID(n) == (parent(n) - 1) * 17 + (IF isOutput(n) THEN 11 + n[3] ELSE n[3])

\* faulty variant of the getter: the forced value is ignored
NodeValue_computed(S, n) == S._value[n]

\* NodeBase.value (getter)
NodeValue(S, n) ==
    IF isDefined(S._forceValue[n]) THEN S._forceValue[n] ELSE S._value[n]

\* ComponentBase.inputValues<4>: the visible values of the inputs at the indices
inputValues(S, c, inds) ==
    <<NodeValue(S, InNode(c, inds[1])), NodeValue(S, InNode(c, inds[2])),
      NodeValue(S, InNode(c, inds[3])), NodeValue(S, InNode(c, inds[4]))>>

(***************************************************************************)
(* ALU                                                                     *)
(***************************************************************************)
ALU_A == <<0, 1, 2, 3>>
ALU_B == <<4, 5, 6, 7>>
ALU_Op == <<8, 9>>
ALU_Cin == 10
ALU_S == <<0, 1, 2, 3>>
ALU_V == 4
ALU_Z == 5

ALUInitialValue == <<<<F, F, F, F>>, F, T>>

\* faulty variant of ALU.op: the inner switches have no case for Unknown and
\* HighImpedance, and an indeterminate Op0 selects the operation of Op0 = false
ALUop_op0Defaulted(op1, op0) ==
    CASE op1 = F -> (CASE op0 = T -> "sub"
                       [] OTHER -> "add")
      [] op1 = T -> (CASE op0 = T -> "and"
                       [] OTHER -> "or")
      [] OTHER -> Unknown

\* ALU.op, from the visible values of Op1 and Op0
ALUop(op1, op0) ==
    CASE op1 = F -> (CASE op0 = F -> "add"
                       [] op0 = T -> "sub"
                       [] OTHER -> Unknown)
      [] op1 = T -> (CASE op0 = F -> "or"
                       [] op0 = T -> "and"
                       [] OTHER -> Unknown)
      [] OTHER -> Unknown

RECURSIVE allZerosFrom(_, _)
allZerosFrom(vals, i) ==
    IF i > Len(vals) THEN T
    ELSE IF isUnknown(vals[i]) \/ isHighImpedance(vals[i]) THEN Unknown
    ELSE IF vals[i] = T THEN F
    ELSE allZerosFrom(vals, i + 1)

allZeros(vals) == allZerosFrom(vals, 1)

asNumber(v) == IF v = T THEN 1 ELSE 0

\* faulty variant of sum3bits: the carry needs all three bits set
sum3bits_carryOnThree(a, b, c) ==
    LET numUnset == (IF isUnknown(a) \/ isHighImpedance(a) THEN 1 ELSE 0)
                  + (IF isUnknown(b) \/ isHighImpedance(a) THEN 1 ELSE 0)
                  + (IF isUnknown(c) \/ isHighImpedance(a) THEN 1 ELSE 0)
        sum == asNumber(a) + asNumber(b) + asNumber(c)
    IN  IF numUnset = 0 THEN <<IF sum % 2 = 1 THEN T ELSE F, IF sum > 2 THEN T ELSE F>>
        ELSE IF numUnset = 1 /\ sum >= 2 THEN <<Unknown, T>>
        ELSE <<Unknown, Unknown>>

\* sum3bits(a, b, c): the three indeterminacy tests are those of the source,
\* which tests isHighImpedance(a) in all three
sum3bits(a, b, c) ==
    LET numUnset == (IF isUnknown(a) \/ isHighImpedance(a) THEN 1 ELSE 0)
                  + (IF isUnknown(b) \/ isHighImpedance(a) THEN 1 ELSE 0)
                  + (IF isUnknown(c) \/ isHighImpedance(a) THEN 1 ELSE 0)
        sum == asNumber(a) + asNumber(b) + asNumber(c)
    IN  IF numUnset = 0 THEN <<IF sum % 2 = 1 THEN T ELSE F, IF sum >= 2 THEN T ELSE F>>
        ELSE IF numUnset = 1 /\ sum >= 2 THEN <<Unknown, T>>
        ELSE <<Unknown, Unknown>>

\* the carry entering bit i (0-based) of the ripple addition
RECURSIVE addCarryIn(_, _, _, _)
addCarryIn(a, b, cin, i) ==
    IF i = 0 THEN cin
    ELSE sum3bits(addCarryIn(a, b, cin, i - 1), a[i], b[i])[2]

ALUadd(a, b, cin) ==
    LET s(i) == sum3bits(addCarryIn(a, b, cin, i - 1), a[i], b[i])[1]
        v == addCarryIn(a, b, cin, 4)
    IN  <<<<s(1), s(2), s(3), s(4)>>, v>>

\* toInt of the "sub" case: undefined on the first Unknown; a HighImpedance
\* bit is not tested and makes the sum NaN
toInt(vs) ==
    IF \E i \in 1..Len(vs) : isUnknown(vs[i]) THEN [k |-> "undefined", n |-> 0]
    ELSE IF \E i \in 1..Len(vs) : isHighImpedance(vs[i]) THEN [k |-> "NaN", n |-> 0]
    ELSE [k |-> "int",
          n |-> asNumber(vs[1]) + 2 * asNumber(vs[2]) + 4 * asNumber(vs[3]) + 8 * asNumber(vs[4])]

bitOf(n, i) == IF (n \div (2 ^ i)) % 2 = 1 THEN T ELSE F

\* faulty variant of the sub case: the borrow is set also when the operands
\* are equal
ALUsub_borrowOnEqual(a, b) ==
    LET aInt == toInt(a)
        bInt == toInt(b)
    IN  IF aInt.k = "undefined" \/ bInt.k = "undefined"
        THEN <<<<Unknown, Unknown, Unknown, Unknown>>, Unknown>>
        ELSE IF aInt.k = "NaN" \/ bInt.k = "NaN"
        THEN <<<<F, F, F, F>>, F>>
        ELSE LET d == aInt.n - bInt.n
                 yInt == IF d < 0 THEN d + 16 ELSE d
             IN  <<<<bitOf(yInt, 0), bitOf(yInt, 1), bitOf(yInt, 2), bitOf(yInt, 3)>>,
                   IF bInt.n >= aInt.n THEN T ELSE F>>

ALUsub(a, b) ==
    LET aInt == toInt(a)
        bInt == toInt(b)
    IN  IF aInt.k = "undefined" \/ bInt.k = "undefined"
        THEN <<<<Unknown, Unknown, Unknown, Unknown>>, Unknown>>
        ELSE IF aInt.k = "NaN" \/ bInt.k = "NaN"
        THEN \* yInt is NaN: (NaN >>> 0) is 0 and every comparison is false
             <<<<F, F, F, F>>, F>>
        ELSE LET d == aInt.n - bInt.n
                 yInt == IF d < 0 THEN d + 16 ELSE d
             IN  <<<<bitOf(yInt, 0), bitOf(yInt, 1), bitOf(yInt, 2), bitOf(yInt, 3)>>,
                   IF bInt.n > aInt.n THEN T ELSE F>>

ALUand(a, b) ==
    LET y(i) == IF a[i] = F \/ b[i] = F THEN F
                ELSE IF a[i] = T /\ b[i] = T THEN T
                ELSE Unknown
    IN  <<<<y(1), y(2), y(3), y(4)>>, F>>

\* faulty variant of the or case: an indeterminate operand makes the bit
\* Unknown even when the other operand is true
ALUor_noDominance(a, b) ==
    LET y(i) == IF (a[i] = T /\ b[i] \in {F, T}) \/ (b[i] = T /\ a[i] \in {F, T}) THEN T
                ELSE IF a[i] = F /\ b[i] = F THEN F
                ELSE Unknown
    IN  <<<<y(1), y(2), y(3), y(4)>>, F>>

ALUor(a, b) ==
    LET y(i) == IF a[i] = T \/ b[i] = T THEN T
                ELSE IF a[i] = F /\ b[i] = F THEN F
                ELSE Unknown
    IN  <<<<y(1), y(2), y(3), y(4)>>, F>>

\* faulty variant of ALU.doRecalcValue: the subtraction takes the carry input
\* as a borrow, and subtracts it from A first
ALUcompute_subBorrowsCin(a, b, op1, op0, cin) ==
    LET op == ALUop(op1, op0)
        a1 == IF cin = T /\ \A i \in 1..4 : a[i] \in {F, T}
              THEN [i \in 1..4 |-> bitOf((toInt(a).n + 15) % 16, i - 1)]
              ELSE a
    IN  IF isUnknown(op)
        THEN <<<<Unknown, Unknown, Unknown, Unknown>>, Unknown, Unknown>>
        ELSE LET yv == CASE op = "add" -> ALUadd(a, b, cin)
                         [] op = "sub" -> ALUsub(a1, b)
                         [] op = "and" -> ALUand(a, b)
                         [] op = "or" -> ALUor(a, b)
             IN  <<yv[1], yv[2], allZeros(yv[1])>>

\* ALU.doRecalcValue as a function of the eleven input values
ALUcompute(a, b, op1, op0, cin) ==
    LET op == ALUop(op1, op0)
    IN  IF isUnknown(op)
        THEN <<<<Unknown, Unknown, Unknown, Unknown>>, Unknown, Unknown>>
        ELSE LET yv == CASE op = "add" -> ALUadd(a, b, cin)
                         [] op = "sub" -> ALUsub(a, b)
                         [] op = "and" -> ALUand(a, b)
                         [] op = "or" -> ALUor(a, b)
             IN  <<yv[1], yv[2], allZeros(yv[1])>>

ALU_doRecalcValue(S, c) ==
    ALUcompute(inputValues(S, c, ALU_A), inputValues(S, c, ALU_B),
               NodeValue(S, InNode(c, ALU_Op[2])), NodeValue(S, InNode(c, ALU_Op[1])),
               NodeValue(S, InNode(c, ALU_Cin)))

(***************************************************************************)
(* RAM 16 x 4                                                              *)
(***************************************************************************)
RAM_Clock == 0
RAM_WriteEnable == 1
RAM_Clear == 2
RAM_Data == <<3, 4, 5, 6>>
RAM_Address == <<7, 8, 9, 10>>
RAM_Q == <<0, 1, 2, 3>>
WORD_WIDTH == Len(RAM_Data)
NUM_CELLS == 2 ^ Len(RAM_Address)

FixedArrayFill(v, n) == <<v, v, v, v>>

\* faulty variant of valueFilledWith: the loop stops one cell short, and the
\* last cell of the new array is left empty
valueFilledWith_oneShort(v) ==
    [mem |-> [i \in 0..(NUM_CELLS - 1) |->
                IF i < NUM_CELLS - 1 THEN FixedArrayFill(v, WORD_WIDTH)
                ELSE FixedArrayFill(undefined, WORD_WIDTH)],
     out |-> FixedArrayFill(v, WORD_WIDTH)]

\* RAM16by4.valueFilledWith
valueFilledWith(v) ==
    [mem |-> [i \in 0..(NUM_CELLS - 1) |-> FixedArrayFill(v, WORD_WIDTH)],
     out |-> FixedArrayFill(v, WORD_WIDTH)]

\* displayValuesFromArray(bits, false)[1]: the number whose bit i is bits[i],
\* or Unknown when a bit is Unknown or HighImpedance
displayValuesFromArray(bits) ==
    IF \E i \in 1..Len(bits) : isUnknown(bits[i]) \/ isHighImpedance(bits[i])
    THEN [known |-> FALSE, n |-> 0]
    ELSE [known |-> TRUE,
          n |-> asNumber(bits[1]) + 2 * asNumber(bits[2]) + 4 * asNumber(bits[3]) + 8 * asNumber(bits[4])]

\* RAM16by4.currentAddress
currentAddress(S, c) == displayValuesFromArray(inputValues(S, c, RAM_Address))

\* Flipflop.isClockTrigger
isClockTrigger(trigger, prevClock, clock) ==
    \/ trigger = "rising" /\ prevClock = F /\ clock = T
    \/ trigger = "falling" /\ prevClock = T /\ clock = F

\* faulty variant of RAM16by4.doRecalcValue: a write puts the former content
\* of the cell on the output
RAM_doRecalcValue_readBeforeWrite(S, c) ==
    LET clear == NodeValue(S, InNode(c, RAM_Clear))
    IN  IF clear = T
        THEN [S |-> S, v |-> valueFilledWith(F)]
        ELSE
        LET addr == currentAddress(S, c)
            prevClock == S._lastClock[c]
            clock == NodeValue(S, InNode(c, RAM_Clock))
            S1 == [S EXCEPT !._lastClock[c] = clock]
            oldState == S.compValue[c]
            we == NodeValue(S, InNode(c, RAM_WriteEnable))
        IN  IF we # T \/ ~isClockTrigger(S._trigger[c], prevClock, clock)
            THEN [S |-> S1,
                  v |-> [mem |-> oldState.mem,
                         out |-> IF ~addr.known
                                 THEN <<Unknown, Unknown, Unknown, Unknown>>
                                 ELSE oldState.mem[addr.n]]]
            ELSE IF ~addr.known
            THEN [S |-> S1, v |-> valueFilledWith(Unknown)]
            ELSE LET newData == inputValues(S, c, RAM_Data)
                 IN  [S |-> S1,
                      v |-> [mem |-> [i \in 0..(NUM_CELLS - 1) |->
                                        IF i = addr.n THEN newData ELSE oldState.mem[i]],
                             out |-> oldState.mem[addr.n]]]

\* faulty variant of RAM16by4.doRecalcValue: the write is level-triggered, it
\* tests the present clock value and not the remembered one
RAM_doRecalcValue_levelTriggered(S, c) ==
    LET clear == NodeValue(S, InNode(c, RAM_Clear))
    IN  IF clear = T
        THEN [S |-> S, v |-> valueFilledWith(F)]
        ELSE
        LET addr == currentAddress(S, c)
            clock == NodeValue(S, InNode(c, RAM_Clock))
            prevClock == IF clock = T THEN F ELSE IF clock = F THEN T ELSE clock
            S1 == [S EXCEPT !._lastClock[c] = clock]
            oldState == S.compValue[c]
            we == NodeValue(S, InNode(c, RAM_WriteEnable))
        IN  IF we # T \/ ~isClockTrigger(S._trigger[c], prevClock, clock)
            THEN [S |-> S1,
                  v |-> [mem |-> oldState.mem,
                         out |-> IF ~addr.known
                                 THEN <<Unknown, Unknown, Unknown, Unknown>>
                                 ELSE oldState.mem[addr.n]]]
            ELSE IF ~addr.known
            THEN [S |-> S1, v |-> valueFilledWith(Unknown)]
            ELSE LET newData == inputValues(S, c, RAM_Data)
                 IN  [S |-> S1,
                      v |-> [mem |-> [i \in 0..(NUM_CELLS - 1) |->
                                        IF i = addr.n THEN newData ELSE oldState.mem[i]],
                             out |-> newData]]

\* RAM16by4.doRecalcValue: the state it leaves (the remembered clock) and the
\* value it returns
RAM_doRecalcValue(S, c) ==
    LET clear == NodeValue(S, InNode(c, RAM_Clear))
    IN  IF clear = T
        THEN [S |-> S, v |-> valueFilledWith(F)]
        ELSE
        LET addr == currentAddress(S, c)
            prevClock == S._lastClock[c]
            clock == NodeValue(S, InNode(c, RAM_Clock))
            S1 == [S EXCEPT !._lastClock[c] = clock]
            oldState == S.compValue[c]
            we == NodeValue(S, InNode(c, RAM_WriteEnable))
        IN  IF we # T \/ ~isClockTrigger(S._trigger[c], prevClock, clock)
            THEN [S |-> S1,
                  v |-> [mem |-> oldState.mem,
                         out |-> IF ~addr.known
                                 THEN <<Unknown, Unknown, Unknown, Unknown>>
                                 ELSE oldState.mem[addr.n]]]
            ELSE IF ~addr.known
            THEN [S |-> S1, v |-> valueFilledWith(Unknown)]
            ELSE LET newData == inputValues(S, c, RAM_Data)
                 IN  [S |-> S1,
                      v |-> [mem |-> [i \in 0..(NUM_CELLS - 1) |->
                                        IF i = addr.n THEN newData ELSE oldState.mem[i]],
                             out |-> newData]]

(***************************************************************************)
(* The log of a handler: its name, then the calls it makes, in order.      *)
(***************************************************************************)
Logged(S, call, c) == [S EXCEPT !.log = Append(@, [call |-> call, c |-> c])]
Handler(l) == l[1].call
Calls(l, call) == SelectSeq(l, LAMBDA x : x.call = call)

RECURSIVE NodeBase_setValue(_, _, _)

(***************************************************************************)
(* Timeline and Wire                                                       *)
(***************************************************************************)
\* Timeline.schedule(delay, action) called at logical time stamp: the action
\* (the update of wire w with value val) is queued for stamp + delay
Timeline_schedule(S, stamp, delay, w, val) ==
    [S EXCEPT !.queue = Append(@, [time |-> stamp + delay, wire |-> w, val |-> val])]

\* Wire.propageNewValue(newValue, now)
Wire_propageNewValue(S, w, newValue, stamp) ==
    Timeline_schedule(S, stamp, S.wires[w].delay, w, newValue)

\* Wire.isAlive: the wire has not been destroyed and both endpoints are alive
Wire_isAlive(S, w) ==
    /\ w \in S.liveWires
    /\ S._isAlive[S.wires[w].startNode]
    /\ S._isAlive[S.wires[w].endNode]

(***************************************************************************)
(* Node and the recalculation contract                                     *)
(***************************************************************************)
RECURSIVE propagateToWires(_, _, _, _, _)
propagateToWires(S, ws, i, newValue, stamp) ==
    IF i > Len(ws) THEN S
    ELSE propagateToWires(Wire_propageNewValue(S, ws[i], newValue, stamp), ws, i + 1, newValue, stamp)

\* faulty variant of NodeOut.propagateNewValue: the update of a wire without
\* delay is applied to its end node at once (at most three deep)
RECURSIVE propagateToWiresSync(_, _, _, _, _)
propagateToWiresSync(S, ws, i, newValue, stamp) ==
    IF i > Len(ws) THEN S
    ELSE LET w  == ws[i]
             S1 == IF S.wires[w].delay = 0 /\ Len(Calls(S.log, "recalc")) < 3
                   THEN NodeBase_setValue(S, S.wires[w].endNode, newValue)
                   ELSE Wire_propageNewValue(S, w, newValue, stamp)
         IN  propagateToWiresSync(S1, ws, i + 1, newValue, stamp)

NodeOut_propagateNewValue_sync(S, n, newValue) ==
    propagateToWiresSync(S, S._outgoingWires[n], 1, newValue, S.now)

\* NodeOut.propagateNewValue
NodeOut_propagateNewValue(S, n, newValue) ==
    LET stamp == S.now
    IN  propagateToWires(S, S._outgoingWires[n], 1, newValue, stamp)

\* the loop of propagateValue: outputs[inds[i]].value = vals[i], in order
RECURSIVE assignOutputs(_, _, _, _, _)
assignOutputs(S, c, inds, vals, i) ==
    IF i > Len(inds) THEN S
    ELSE assignOutputs(NodeBase_setValue(S, OutNode(c, inds[i]), vals[i]), c, inds, vals, i + 1)

\* ALU.propagateValue: S0..S3, then V, then Z
ALU_propagateValue(S, c, newValue) ==
    assignOutputs(S, c, ALU_S \o <<ALU_V, ALU_Z>>, newValue[1] \o <<newValue[2], newValue[3]>>, 1)

\* RAM16by4.propagateValue
RAM_propagateValue(S, c, newValue) ==
    assignOutputs(S, c, RAM_Q, newValue.out, 1)

\* ComponentBase.propagateValue, dispatched on the kind of the component
propagateValue(S, c, newValue) ==
    IF S.kind[c] = "alu" THEN ALU_propagateValue(S, c, newValue)
    ELSE RAM_propagateValue(S, c, newValue)

\* ComponentBase.doRecalcValue, dispatched on the kind of the component
doRecalcValue(S, c) ==
    IF S.kind[c] = "alu" THEN [S |-> S, v |-> ALU_doRecalcValue(S, c)]
    ELSE RAM_doRecalcValue(S, c)

\* commit: the outputs are assigned only when the value differs from the last
\* committed one
doSetValue(S, c, newValue) ==
    IF newValue # S.compValue[c]
    THEN propagateValue(Logged([S EXCEPT !.compValue[c] = newValue], "commit", c), c, newValue)
    ELSE S

\* ComponentBase.recalcValue
recalcValue(S, c) ==
    LET r == doRecalcValue(Logged(S, "recalc", c), c)
    IN  doSetValue(r.S, c, r.v)

\* ComponentBase.setNeedsRecalc: the owner recalculates and commits at once
setNeedsRecalc(S, c) == recalcValue(Logged(S, "setNeedsRecalc", c), c)

\* faulty variant of NodeIn.propagateNewValue: the owner is only marked, and
\* recalculated later for all the transitions of its inputs together
NodeIn_propagateNewValue_deferred(S, n, newValue) == Logged(S, "setNeedsRecalc", parent(n))

\* NodeIn.propagateNewValue
NodeIn_propagateNewValue(S, n, newValue) == setNeedsRecalc(S, parent(n))

\* NodeBase.propagateNewValue (abstract), dispatched on the class of the node
propagateNewValue(S, n, newValue) ==
    IF isOutput(n) THEN NodeOut_propagateNewValue(S, n, newValue)
    ELSE NodeIn_propagateNewValue(S, n, newValue)

\* faulty variant of propagateNewValueIfNecessary: the old and the new visible
\* value are not compared
propagateNewValueAlways(S, n, oldVisibleValue) ==
    propagateNewValue(S, n, NodeValue(S, n))

\* NodeBase.propagateNewValueIfNecessary
propagateNewValueIfNecessary(S, n, oldVisibleValue) ==
    LET newVisibleValue == NodeValue(S, n)
    IN  IF newVisibleValue # oldVisibleValue
        THEN propagateNewValue(S, n, newVisibleValue)
        ELSE S

\* NodeBase.value (setter)
NodeBase_setValue(S, n, val) ==
    LET oldVisibleValue == NodeValue(S, n)
    IN  IF val # S._value[n]
        THEN propagateNewValueIfNecessary([S EXCEPT !._value[n] = val], n, oldVisibleValue)
        ELSE S

\* faulty variant of the forceValue setter: nothing is propagated
NodeOut_setForceValue_silent(S, n, newForceValue) ==
    [S EXCEPT !._forceValue[n] = newForceValue]

\* NodeOut.forceValue (setter)
NodeOut_setForceValue(S, n, newForceValue) ==
    LET oldVisibleValue == NodeValue(S, n)
    IN  propagateNewValueIfNecessary([S EXCEPT !._forceValue[n] = newForceValue], n, oldVisibleValue)

\* faulty variant of the incomingWire setter: the computed value of the start
\* node is taken, not its visible value
NodeIn_setIncomingWire_computed(S, n, wire) ==
    LET S1 == [S EXCEPT !._incomingWire[n] = wire]
    IN  IF isNull(wire) THEN NodeBase_setValue(S1, n, F)
        ELSE NodeBase_setValue(S1, n, S1._value[S1.wires[wire].startNode])

\* NodeIn.incomingWire (setter)
NodeIn_setIncomingWire(S, n, wire) ==
    LET S1 == [S EXCEPT !._incomingWire[n] = wire]
    IN  IF isNull(wire) THEN NodeBase_setValue(S1, n, F)
        ELSE NodeBase_setValue(S1, n, NodeValue(S1, S1.wires[wire].startNode))

\* faulty variant of acceptsMoreConnections: an input node always accepts
acceptsMoreConnections_always(S, n) == TRUE

\* NodeIn.acceptsMoreConnections / NodeOut.acceptsMoreConnections
acceptsMoreConnections(S, n) ==
    IF isOutput(n) THEN TRUE ELSE isNull(S._incomingWire[n])

\* faulty variant of addOutgoingWire: unshift instead of push
addOutgoingWire_unshift(S, n, wire) == [S EXCEPT !._outgoingWires[n] = <<wire>> \o @]

\* NodeOut.addOutgoingWire
addOutgoingWire(S, n, wire) == [S EXCEPT !._outgoingWires[n] = Append(@, wire)]

\* faulty variant of removeOutgoingWire: the last wire of the list is removed
removeOutgoingWire_last(S, n, wire) ==
    LET ws == S._outgoingWires[n]
    IN  IF ws = <<>> THEN S
        ELSE [S EXCEPT !._outgoingWires[n] = SubSeq(ws, 1, Len(ws) - 1)]

\* NodeOut.removeOutgoingWire: the first occurrence is spliced out
removeOutgoingWire(S, n, wire) ==
    LET ws == S._outgoingWires[n]
        idx == {i \in 1..Len(ws) : ws[i] = wire}
    IN  IF idx = {} THEN S
        ELSE LET i == CHOOSE j \in idx : \A k \in idx : j <= k
             IN  [S EXCEPT !._outgoingWires[n] = SubSeq(ws, 1, i - 1) \o SubSeq(ws, i + 1, Len(ws))]

\* faulty variant of NodeBase.destroy: the node leaves the registry but keeps
\* its liveness flag
NodeBase_destroy_registryOnly(S, n) == [S EXCEPT !.liveNodes = @ \ {n}]

\* NodeBase.destroy
NodeBase_destroy(S, n) ==
    [S EXCEPT !._isAlive[n] = FALSE, !.liveNodes = @ \ {n}]

\* ComponentBase.destroy
RECURSIVE destroyNodes(_, _)
destroyNodes(S, ns) ==
    IF ns = {} THEN S
    ELSE LET n == CHOOSE x \in ns : TRUE
         IN  destroyNodes(NodeBase_destroy(S, n), ns \ {n})

ComponentBase_destroy(S, c) ==
    destroyNodes([S EXCEPT !._state[c] = "DEAD"], NodesOf(c, S.kind[c]))

\* the identities of Wire objects.  An input node has at most one wire that
\* was not destroyed, named WireId of the node.  A destroyed Wire is never
\* alive again, and only the liveness test of its pending events still reads
\* it: the destroyed Wire objects that ended at one node are represented by
\* one, named DeadWireId of the node.
WireId(n) == 2 * ((n[1] - 1) * NumInputs("any") + n[3]) + 1
DeadWireId(n) == WireId(n) + 1

\* the components of the circuit, numbered from 1
Comps == DOMAIN kind
LastComp == CHOOSE c \in Comps : \A d \in Comps : d <= c

\* the nodes the user wires: output Z of component 1, to inputs 0 and 4 (A0
\* and B0 of an ALU) of the last component, which is component 1 itself when
\* the circuit has one component
WiredOutputs == {OutNode(1, ALU_Z)}
WiredInputs == {InNode(LastComp, 0), InNode(LastComp, 4)}
WireIds == {WireId(n) : n \in WiredInputs} \cup {DeadWireId(n) : n \in WiredInputs}
NoWire == [startNode |-> NoNode, endNode |-> NoNode, delay |-> 0]

Referenced(S, w) ==
    \/ w \in S.liveWires
    \/ \E i \in 1..Len(S.queue) : S.queue[i].wire = w

\* the pending events of Wire w held under the name d
Renamed(q, w, d) == [i \in 1..Len(q) |-> IF q[i].wire = w THEN [q[i] EXCEPT !.wire = d] ELSE q[i]]

\* Wire.destroy: the wire leaves both of its nodes and is no longer alive
Wire_destroy(S, w) ==
    LET S1 == removeOutgoingWire(S, S.wires[w].startNode, w)
        S2 == NodeIn_setIncomingWire(S1, S.wires[w].endNode, null)
        d  == DeadWireId(S.wires[w].endNode)
    IN  [S2 EXCEPT !.liveWires = @ \ {w},
                   !.wires[d] = [NoWire EXCEPT !.endNode = S.wires[w].endNode],
                   !.queue = Renamed(@, w, d)]

\* a new wire from output node n1 to input node n2
Wire_attach(S, n1, n2, delay) ==
    LET w == WireId(n2)
        S1 == [S EXCEPT !.wires[w] = [startNode |-> n1, endNode |-> n2, delay |-> delay],
                        !.liveWires = @ \cup {w}]
        S2 == addOutgoingWire(S1, n1, w)
    IN  NodeIn_setIncomingWire(S2, n2, w)

\* connecting n1 to n2: output-to-output, or an input that accepts no more
\* connections, is a WiringError that changes nothing
connect(S, n1, n2, delay) ==
    IF isOutput(n2) \/ ~acceptsMoreConnections(S, n2)
    THEN [S EXCEPT !.error = "WiringError"]
    ELSE Wire_attach(S, n1, n2, delay)

\* connecting with explicit replace: detach, then attach
reconnect(S, n1, n2, delay) ==
    IF isOutput(n2)
    THEN [S EXCEPT !.error = "WiringError"]
    ELSE IF isNull(S._incomingWire[n2]) THEN Wire_attach(S, n1, n2, delay)
    ELSE Wire_attach(Wire_destroy(S, S._incomingWire[n2]), n1, n2, delay)

\* the positions in queue q of the events due at time t, in schedule order
duePositions(q, t) == SelectSeq([i \in 1..Len(q) |-> i], LAMBDA i : q[i].time = t)

\* the positions of the events due from time t to time upto, in firing order:
\* by due time, equal due times in schedule order
RECURSIVE dueInOrder(_, _, _)
dueInOrder(q, t, upto) ==
    IF t > upto THEN <<>>
    ELSE duePositions(q, t) \o dueInOrder(q, t + 1, upto)

\* firing one event: the update of its wire's end node, a no-op when the
\* wire is no longer alive
fire(S, e) ==
    IF Wire_isAlive(S, e.wire)
    THEN NodeBase_setValue(S, S.wires[e.wire].endNode, e.val)
    ELSE S

\* the events at positions ps of queue q fire in order; each is logged with
\* its position
RECURSIVE fireAll(_, _, _)
fireAll(S, q, ps) ==
    IF ps = <<>> THEN S
    ELSE fireAll(fire(Logged(S, "fire", Head(ps)), q[Head(ps)]), q, Tail(ps))

\* faulty variant of Timeline.drain: the events that became due during the
\* drain fire in the same drain
Timeline_drain_again(S) ==
    LET S1 == fireAll([S EXCEPT !.queue = SelectSeq(@, LAMBDA e : e.time > S.now)],
                      S.queue, dueInOrder(S.queue, 0, S.now))
    IN  fireAll([S1 EXCEPT !.queue = SelectSeq(@, LAMBDA e : e.time > S.now)],
                S1.queue, dueInOrder(S1.queue, 0, S1.now))

\* Timeline.drain: the events due when the drain begins leave the queue and
\* fire in order; those scheduled meanwhile wait for a later drain
Timeline_drain(S) ==
    fireAll([S EXCEPT !.queue = SelectSeq(@, LAMBDA e : e.time > S.now)],
            S.queue, dueInOrder(S.queue, 0, S.now))

(***************************************************************************)
(* The state machine                                                       *)
(***************************************************************************)
Cur ==
    [kind |-> kind, _state |-> _state, _isMovingWithMouseOffset |-> _isMovingWithMouseOffset,
     compValue |-> compValue, _lastClock |-> _lastClock,
     _trigger |-> _trigger, _isAlive |-> _isAlive, _value |-> _value,
     _forceValue |-> _forceValue, id |-> id, _incomingWire |-> _incomingWire,
     _outgoingWires |-> _outgoingWires, liveNodes |-> liveNodes, wires |-> wires,
     liveWires |-> liveWires, now |-> now, queue |-> queue,
     error |-> error, log |-> log]

\* the state in which handler h starts: no error, and the log opens with h
NoError == "none"
Begin(h) == [Cur EXCEPT !.error = NoError, !.log = <<[call |-> h, c |-> 0]>>]

\* the state S a handler leaves becomes the next state
Install(S) ==
    /\ Len(S.queue) <= MaxQueue
    /\ kind' = S.kind
    /\ _state' = S._state
    /\ _isMovingWithMouseOffset' = S._isMovingWithMouseOffset
    /\ compValue' = S.compValue
    /\ _lastClock' = S._lastClock
    /\ _trigger' = S._trigger
    /\ _isAlive' = S._isAlive
    /\ _value' = S._value
    /\ _forceValue' = S._forceValue
    /\ id' = S.id
    /\ _incomingWire' = S._incomingWire
    /\ _outgoingWires' = S._outgoingWires
    /\ liveNodes' = S.liveNodes
    /\ wires' = [w \in DOMAIN S.wires |-> IF Referenced(S, w) THEN S.wires[w] ELSE NoWire]
    /\ liveWires' = S.liveWires
    /\ now' = S.now
    /\ queue' = S.queue
    /\ error' = S.error
    /\ log' = S.log

AllNodes(k) == UNION {NodesOf(c, k[c]) : c \in DOMAIN k}
InputNodes(k) == {n \in AllNodes(k) : ~isOutput(n)}
OutputNodes(k) == {n \in AllNodes(k) : isOutput(n)}

InitialValue(k) == IF k = "alu" THEN ALUInitialValue ELSE valueFilledWith(F)

\* the state after the construction of the components of kinds k
Constructed(k) ==
    /\ kind = k
    /\ _state = [c \in DOMAIN k |-> "SPAWNED"]
    /\ _isMovingWithMouseOffset = [c \in DOMAIN k |-> undefined]
    /\ compValue = [c \in DOMAIN k |-> InitialValue(k[c])]
    /\ _lastClock = [c \in DOMAIN k |-> Unknown]
    /\ _trigger = [c \in DOMAIN k |-> "rising"]
    /\ _isAlive = [n \in AllNodes(k) |-> TRUE]
    /\ _value = [n \in AllNodes(k) |-> F]
    /\ _forceValue = [n \in AllNodes(k) |-> undefined]
    /\ id = [n \in AllNodes(k) |-> newID(n)]
    /\ _incomingWire = [n \in InputNodes(k) |-> null]
    /\ _outgoingWires = [n \in OutputNodes(k) |-> <<>>]
    /\ liveNodes = AllNodes(k)
    /\ wires = [w \in WireIds |-> NoWire]
    /\ liveWires = {}
    /\ now = 0
    /\ queue = <<>>
    /\ error = NoError
    /\ log = <<[call |-> "new", c |-> 0]>>

\* the output node the user forces
ForcedOutputs == {OutNode(1, ALU_Z)}
\* the delays of the wires the user draws to input node n
Delays(n) == IF n[3] = 0 THEN {0, 1} ELSE {1}
\* the forced values the user sets (undefined clears the force)
ForceValues == {undefined, F, T}

\* the user removes a wire only once the events of the wires removed before
\* have left the queue
NoDestroyedPending == \A i \in 1..Len(queue) : queue[i].wire \in {WireId(n) : n \in WiredInputs}

\* the user sets or clears the forced value of an output node
Force(n, v) ==
    /\ _isAlive[n]
    /\ Install(NodeOut_setForceValue(Begin("forceValue"), n, v))

\* the user draws a wire from n1 to n2
Connect(n1, n2, d) ==
    /\ _isAlive[n1] /\ _isAlive[n2]
    /\ Install(connect(Begin("connect"), n1, n2, d))

\* the user draws a wire to n2 replacing the one it has
Reconnect(n1, n2, d) ==
    /\ _isAlive[n1] /\ _isAlive[n2]
    /\ ~isNull(_incomingWire[n2])
    /\ NoDestroyedPending
    /\ Install(reconnect(Begin("reconnect"), n1, n2, d))

\* the user removes a wire
Disconnect(w) ==
    /\ w \in liveWires
    /\ NoDestroyedPending
    /\ Install(Wire_destroy(Begin("disconnect"), w))

\* the user deletes a component
Destroy(c) ==
    /\ _state[c] # "DEAD"
    /\ Install(ComponentBase_destroy(Begin("destroy"), c))

\* a recalculation that no input change asked for
Recalc(c) ==
    /\ _state[c] # "DEAD"
    /\ Install(recalcValue(Begin("recalcValue"), c))

\* logical time passes
Advance ==
    /\ now < MaxTime
    /\ Install([Begin("advance") EXCEPT !.now = @ + 1])

\* Timeline.drain: the events due now leave the queue and fire in order
Drain ==
    /\ \E i \in 1..Len(queue) : queue[i].time <= now
    /\ Install(Timeline_drain(Begin("drain")))

Init == Constructed([c \in {1} |-> "alu"])

Next ==
    \/ \E n \in ForcedOutputs, v \in ForceValues : Force(n, v)
    \/ \E n1 \in WiredOutputs, n2 \in WiredInputs \cup {OutNode(1, ALU_V)} : \E d \in Delays(n2) : Connect(n1, n2, d)
    \/ \E n1 \in WiredOutputs, n2 \in WiredInputs : \E d \in Delays(n2) : Reconnect(n1, n2, d)
    \/ \E w \in liveWires : Disconnect(w)
    \/ \E c \in Comps : Destroy(c)
    \/ Advance
    \/ Drain

Spec == Init /\ [][Next]_vars

(***************************************************************************)
(* The recalculation contract of one component, an ALU or a RAM: updates   *)
(* arrive at its inputs, it is recalculated without any input change, one  *)
(* of its outputs is wired to one of its inputs.                           *)
(***************************************************************************)
\* the inputs at which updates arrive and the values they carry
DrivenInputs(k) ==
    IF k = "alu"
    THEN {InNode(1, ALU_A[1]), InNode(1, ALU_B[1]), InNode(1, ALU_Op[1]), InNode(1, ALU_Cin)}
    ELSE {InNode(1, RAM_Clock), InNode(1, RAM_WriteEnable), InNode(1, RAM_Clear),
          InNode(1, RAM_Data[2]), InNode(1, RAM_Address[1])}
DrivenValues(n) ==
    IF n \in {InNode(1, ALU_A[1]), InNode(1, RAM_Address[1])} THEN {F, T, Unknown} ELSE {F, T}

\* the wire drawn in this specification: from output 1 (S1 of the ALU, Q1 of
\* the RAM) to input 4 (B0 of the ALU, D1 of the RAM), without delay
FedOutput == OutNode(1, 1)
FedInput == InNode(1, 4)

\* an update arrives at input node n, which has no wire in the model
SetInput(n, v) ==
    /\ _isAlive[n]
    /\ isNull(_incomingWire[n])
    /\ Install(NodeBase_setValue(Begin("setInput"), n, v))

InitComp == \E k \in {"alu", "ram"} : Constructed([c \in {1} |-> k])

NextComp ==
    \/ \E n \in DrivenInputs(kind[1]) : \E v \in DrivenValues(n) : SetInput(n, v)
    \/ \E c \in Comps : Recalc(c)
    \/ Connect(FedOutput, FedInput, 0)
    \/ Drain

SpecComp == InitComp /\ [][NextComp]_vars

(***************************************************************************)
(* A circuit of two ALUs: output Z of the first is wired to input A0 of the  *)
(* second, and either component is deleted, also while updates are pending  *)
(* on the wire.                                                             *)
(***************************************************************************)
InitTwo == Constructed([c \in {1, 2} |-> "alu"])

\* the input of the second ALU that the user wires
NodeA0Two == InNode(2, 0)

NextTwo ==
    \/ \E n \in ForcedOutputs, v \in ForceValues : Force(n, v)
    \/ \E n1 \in WiredOutputs : \E d \in Delays(NodeA0Two) : Connect(n1, NodeA0Two, d)
    \/ \E w \in liveWires : Disconnect(w)
    \/ \E c \in Comps : Destroy(c)
    \/ Advance
    \/ Drain

SpecTwo == InitTwo /\ [][NextTwo]_vars

(***************************************************************************)
(* One recalculation of a RAM, for the input values, the remembered clock,  *)
(* the trigger and the memory contents drawn below.                         *)
(***************************************************************************)
\* the 4-bit word of number n, bit 0 first
WordOf(n) == <<bitOf(n, 0), bitOf(n, 1), bitOf(n, 2), bitOf(n, 3)>>

\* memory contents: all zero (after construction or a clear), every cell
\* holding a word of its own (cell i holds 15 - i), all Unknown
RAMContents ==
    {valueFilledWith(F),
     [mem |-> [i \in 0..(NUM_CELLS - 1) |-> WordOf(15 - i)], out |-> WordOf(15)],
     valueFilledWith(Unknown)}

\* the words on the Data inputs and the values of the Address inputs
DataWords == {<<F, T, F, T>>, <<T, Unknown, F, F>>}
AddressWords == {<<a0, a1, F, a3>> : a0 \in LogicValue, a1 \in {F, T}, a3 \in {F, T}}

\* a RAM whose inputs hold the values given, before it recalculates
RAMWith(trig, lastClock, clock, we, clear, data, addr, content) ==
    LET k == [c \in {1} |-> "ram"]
        in == <<clock, we, clear>> \o data \o addr
    IN  /\ kind = k
        /\ _state = [c \in {1} |-> "SPAWNED"]
        /\ _isMovingWithMouseOffset = [c \in {1} |-> undefined]
        /\ compValue = [c \in {1} |-> content]
        /\ _lastClock = [c \in {1} |-> lastClock]
        /\ _trigger = [c \in {1} |-> trig]
        /\ _isAlive = [n \in AllNodes(k) |-> TRUE]
        /\ _value = [n \in AllNodes(k) |-> IF isOutput(n) THEN content.out[n[3] + 1] ELSE in[n[3] + 1]]
        /\ _forceValue = [n \in AllNodes(k) |-> undefined]
        /\ id = [n \in AllNodes(k) |-> newID(n)]
        /\ _incomingWire = [n \in InputNodes(k) |-> null]
        /\ _outgoingWires = [n \in OutputNodes(k) |-> <<>>]
        /\ liveNodes = AllNodes(k)
        /\ wires = [w \in WireIds |-> NoWire]
        /\ liveWires = {}
        /\ now = 0
        /\ queue = <<>>
        /\ error = NoError
        /\ log = <<[call |-> "new", c |-> 0]>>

InitRAM ==
    \E trig \in {"rising", "falling"}, lastClock \in LogicValue, clock \in LogicValue,
       we \in {F, T, Unknown}, clear \in {F, T, Unknown},
       data \in DataWords, addr \in AddressWords, content \in RAMContents :
        RAMWith(trig, lastClock, clock, we, clear, data, addr, content)

NextRAM == \E c \in Comps : Recalc(c)

SpecRAM == InitRAM /\ [][NextRAM]_vars

(***************************************************************************)
(* One recalculation of an ALU, for the input values drawn below.          *)
(***************************************************************************)
\* the words on the A and on the B inputs, bit 0 first
ALUWords == {<<x0, x1, F, x3>> : x0 \in LogicValue, x1 \in {F, T}, x3 \in {F, T}}

\* a freshly constructed ALU whose inputs hold the values given, before it
\* recalculates
ALUWith(a, b, op1, op0, cin) ==
    LET k == [c \in {1} |-> "alu"]
        in == a \o b \o <<op0, op1, cin>>
    IN  /\ kind = k
        /\ _state = [c \in {1} |-> "SPAWNED"]
        /\ _isMovingWithMouseOffset = [c \in {1} |-> undefined]
        /\ compValue = [c \in {1} |-> InitialValue("alu")]
        /\ _lastClock = [c \in {1} |-> Unknown]
        /\ _trigger = [c \in {1} |-> "rising"]
        /\ _isAlive = [n \in AllNodes(k) |-> TRUE]
        /\ _value = [n \in AllNodes(k) |-> IF isOutput(n) THEN F ELSE in[n[3] + 1]]
        /\ _forceValue = [n \in AllNodes(k) |-> undefined]
        /\ id = [n \in AllNodes(k) |-> newID(n)]
        /\ _incomingWire = [n \in InputNodes(k) |-> null]
        /\ _outgoingWires = [n \in OutputNodes(k) |-> <<>>]
        /\ liveNodes = AllNodes(k)
        /\ wires = [w \in WireIds |-> NoWire]
        /\ liveWires = {}
        /\ now = 0
        /\ queue = <<>>
        /\ error = NoError
        /\ log = <<[call |-> "new", c |-> 0]>>

InitALU ==
    \E a \in ALUWords, b \in ALUWords, op1 \in LogicValue, op0 \in LogicValue,
       cin \in {F, T, Unknown} :
        ALUWith(a, b, op1, op0, cin)

NextALU == \E c \in Comps : Recalc(c)

SpecALU == InitALU /\ [][NextALU]_vars

(***************************************************************************)
(* One recalculation of an ALU under a known opcode, for operands over all *)
(* 16 known words and words with one indeterminate bit.                    *)
(***************************************************************************)
KnownWords == {WordOf(n) : n \in 0..15}
\* the words with bit p Unknown or HighImpedance and the other bits all false
\* or all true
OneIndeterminate ==
    {[i \in 1..4 |-> IF i = p THEN v ELSE x] : p \in 1..4, v \in {Unknown, HighImpedance}, x \in {F, T}}
ArithWords == KnownWords \cup OneIndeterminate

\* the carry input is drawn for the addition, which alone reads it
InitArith ==
    \E a \in ArithWords, b \in ArithWords, op1 \in {F, T}, op0 \in {F, T} :
        \E cin \in IF op1 = F /\ op0 = F THEN LogicValue ELSE {F} :
            ALUWith(a, b, op1, op0, cin)

NextArith == \E c \in Comps : Recalc(c)

SpecArith == InitArith /\ [][NextArith]_vars

(***************************************************************************)
(* Persistence of the nodes of a component.  A JSON object is a function   *)
(* of its field names.  A node representation is tagged "id" when it is a  *)
(* bare number and "object" when it is {id, force}; a list of them is      *)
(* tagged "direct" when it is the element itself and "array" otherwise.    *)
(***************************************************************************)
\* toTriStateRepr: 1, 0 and "?" as they are written in the saved document
toTriStateRepr(v) == CASE v = T -> "1" [] v = F -> "0" [] v = Unknown -> "?"

\* toLogicValue
toLogicValue(r) == CASE r = "1" -> T [] r = "0" -> F [] r = "?" -> Unknown [] r = "Z" -> HighImpedance

\* ComponentBase.inputs and ComponentBase.outputs
inputsOf(S, c) == [i \in 1..NumInputs(S.kind[c]) |-> InNode(c, i - 1)]
outputsOf(S, c) == [i \in 1..NumOutputs(S.kind[c]) |-> OutNode(c, i - 1)]

\* faulty variant: an array also when there is one element
ArrayOrDirect_alwaysArray(reprs) == [k |-> "array", v |-> reprs]

\* the element itself when there is one, the array of the elements otherwise
ArrayOrDirect(reprs) ==
    IF Len(reprs) = 1 THEN [k |-> "direct", v |-> reprs] ELSE [k |-> "array", v |-> reprs]

\* buildNodesRepr: inNodeReprs
inNodeReprs(S, nodes) ==
    LET reprOne(n) == [k |-> "id", id |-> S.id[n], force |-> undefined]
    IN  ArrayOrDirect([i \in 1..Len(nodes) |-> reprOne(nodes[i])])

\* buildNodesRepr: outNodeReprs
outNodeReprs(S, nodes) ==
    LET reprOne(n) == IF isUndefined(S._forceValue[n])
                      THEN [k |-> "id", id |-> S.id[n], force |-> undefined]
                      ELSE [k |-> "object", id |-> S.id[n], force |-> toTriStateRepr(S._forceValue[n])]
    IN  ArrayOrDirect([i \in 1..Len(nodes) |-> reprOne(nodes[i])])

\* faulty variant of ComponentBase.buildNodesRepr: the ids of the inputs are
\* written in reverse order
buildNodesRepr_inputsReversed(S, c) ==
    LET numInputs == Len(inputsOf(S, c))
        numOutputs == Len(outputsOf(S, c))
        inRepr == inNodeReprs(S, [i \in 1..numInputs |-> inputsOf(S, c)[numInputs - i + 1]])
        outRepr == outNodeReprs(S, outputsOf(S, c))
    IN  IF numInputs # 0
        THEN IF numOutputs # 0
             THEN [f \in {"in", "out"} |-> IF f = "in" THEN inRepr ELSE outRepr]
             ELSE [f \in {"id"} |-> inRepr]
        ELSE IF numOutputs # 0
             THEN [f \in {"id"} |-> outRepr]
             ELSE <<>>

\* ComponentBase.buildNodesRepr
buildNodesRepr(S, c) ==
    LET numInputs == Len(inputsOf(S, c))
        numOutputs == Len(outputsOf(S, c))
        inRepr == inNodeReprs(S, inputsOf(S, c))
        outRepr == outNodeReprs(S, outputsOf(S, c))
    IN  IF numInputs # 0
        THEN IF numOutputs # 0
             THEN [f \in {"in", "out"} |-> IF f = "in" THEN inRepr ELSE outRepr]
             ELSE [f \in {"id"} |-> inRepr]
        ELSE IF numOutputs # 0
             THEN [f \in {"id"} |-> outRepr]
             ELSE <<>>

\* ComponentBase.toJSONBase: the position is not modelled
toJSONBase(S, c) == buildNodesRepr(S, c)

isNumber(r) == r.k = "id"
isArray(rs) == rs.k = "array"

\* nodeSpecsFromRepr: genOutSpecs; a spec built from {id, force} has a force
\* field
genOutSpecs(outReprs) ==
    LET pushOne(outRepr) == IF isNumber(outRepr)
                            THEN [id |-> outRepr.id, hasForce |-> FALSE, force |-> undefined]
                            ELSE [id |-> outRepr.id, hasForce |-> TRUE, force |-> outRepr.force]
    IN  IF isArray(outReprs)
        THEN [i \in 1..Len(outReprs.v) |-> pushOne(outReprs.v[i])]
        ELSE <<pushOne(outReprs.v[1])>>

\* nodeSpecsFromRepr: genInSpecs
genInSpecs(inReprs) ==
    LET pushOne(inRepr) == [id |-> inRepr.id, hasForce |-> FALSE, force |-> undefined]
    IN  IF isArray(inReprs)
        THEN [i \in 1..Len(inReprs.v) |-> pushOne(inReprs.v[i])]
        ELSE <<pushOne(inReprs.v[1])>>

\* ComponentBase.nodeSpecsFromRepr, for saved data that is not null: the
\* input specs and the output specs
nodeSpecsFromRepr(_repr, numInputs, numOutputs) ==
    IF numInputs # 0
    THEN IF numOutputs # 0
         THEN <<genInSpecs(_repr["in"]), genOutSpecs(_repr["out"])>>
         ELSE <<genInSpecs(_repr["id"]), <<>>>>
    ELSE IF numOutputs # 0
         THEN <<<<>>, genOutSpecs(_repr["id"])>>
         ELSE <<<<>>, <<>>>>

\* NodeManager: an id is in use when a live node bears it
NodeManager_isUsed(S, i) == \E n \in S.liveNodes : S.id[n] = i

\* NodeManager.markIDUsed: a MappingError when the id is in use
NodeManager_markIDUsed(S, i) ==
    IF NodeManager_isUsed(S, i) THEN [S EXCEPT !.error = "MappingError"] ELSE S

\* NodeManager.newID: the least id that is not in use and was not given to
\* one of the specs built before it in the same construction
NodeManager_newID(S, given) ==
    LET free(i) == ~NodeManager_isUsed(S, i) /\ \A j \in 1..Len(given) : given[j].id # i
    IN  CHOOSE i \in 0..(Cardinality(S.liveNodes) + Len(given)) :
            free(i) /\ \A j \in 0..(i - 1) : ~free(j)

\* ComponentBase.nodeSpecsFromRepr, for saved data that is null: one new id
\* for each input, then one for each output
RECURSIVE defaultSpecs(_, _, _)
defaultSpecs(S, specs, count) ==
    IF count = 0 THEN specs
    ELSE defaultSpecs(S, Append(specs, [id |-> NodeManager_newID(S, specs),
                                        hasForce |-> FALSE, force |-> undefined]), count - 1)

nodeSpecsFromRepr_null(S, numInputs, numOutputs) ==
    LET specs == defaultSpecs(S, <<>>, numInputs + numOutputs)
    IN  <<SubSeq(specs, 1, numInputs), SubSeq(specs, numInputs + 1, numInputs + numOutputs)>>

\* the ids of specs from the i-th on are marked used, up to the first that
\* raises an error
RECURSIVE markIDsUsed(_, _, _)
markIDsUsed(S, specs, i) ==
    IF i > Len(specs) \/ S.error # NoError THEN S
    ELSE markIDsUsed(NodeManager_markIDUsed(S, specs[i].id), specs, i + 1)

\* faulty variant of the id availability check: the ids of the outputs are
\* not checked
idAvailabilityCheck_inputsOnly(S, inputSpecs, outputSpecs) == markIDsUsed(S, inputSpecs, 1)

\* ComponentBase.nodeSpecsFromRepr, the id availability check that ends it:
\* the ids of the input specs, then those of the output specs
idAvailabilityCheck(S, inputSpecs, outputSpecs) == markIDsUsed(S, inputSpecs \o outputSpecs, 1)

\* NodeBase.constructor on the spec of the node: a new node with the id of
\* the spec, forced when the spec has a force field, joins the live nodes
NodeBase_constructor(S, n, nodeSpec) ==
    [S EXCEPT !.id[n] = nodeSpec.id,
              !._forceValue[n] = IF nodeSpec.hasForce THEN toLogicValue(nodeSpec.force) ELSE undefined,
              !._value[n] = F,
              !._isAlive[n] = TRUE,
              !.liveNodes = @ \cup {n}]

\* ComponentBase.makeNodes
RECURSIVE makeNodes(_, _, _, _)
makeNodes(S, nodes, specs, i) ==
    IF i > Len(nodes) THEN S
    ELSE makeNodes(NodeBase_constructor(S, nodes[i], specs[i]), nodes, specs, i + 1)

\* ComponentBase.constructor on saved data: the component is restored with
\* the nodes its saved representation describes; when an id is not available
\* the construction ends with the error, before any node is made
ComponentBase_constructor(S, c, savedData) ==
    LET specs == nodeSpecsFromRepr(savedData, NumInputs(S.kind[c]), NumOutputs(S.kind[c]))
        S0 == idAvailabilityCheck(S, specs[1], specs[2])
        S1 == [S0 EXCEPT !._state[c] = "SPAWNED", !._isMovingWithMouseOffset[c] = undefined]
        S2 == makeNodes(S1, inputsOf(S, c), specs[1], 1)
    IN  IF S0.error # NoError THEN S0
        ELSE makeNodes(S2, outputsOf(S, c), specs[2], 1)

\* ComponentBase.constructor on null: the component is newly placed, with
\* nodes that bear new ids
ComponentBase_constructor_null(S, c) ==
    LET specs == nodeSpecsFromRepr_null(S, NumInputs(S.kind[c]), NumOutputs(S.kind[c]))
        S1 == [S EXCEPT !._state[c] = "SPAWNING", !._isMovingWithMouseOffset[c] = undefined]
        S2 == makeNodes(S1, inputsOf(S, c), specs[1], 1)
    IN  makeNodes(S2, outputsOf(S, c), specs[2], 1)

(***************************************************************************)
(* Persistence of the RAM: the memory is saved as strings and a RAM is     *)
(* constructed again from the saved data.  A string is the sequence of its *)
(* characters.                                                             *)
(***************************************************************************)
\* toLogicValueRepr, as the character it contributes to the joined string
toLogicValueRepr(v) ==
    CASE v = T -> "1" [] v = F -> "0" [] v = Unknown -> "?" [] v = HighImpedance -> "Z"

\* toLogicValueFromChar
toLogicValueFromChar(ch) ==
    CASE ch = "1" -> T [] ch = "0" -> F [] ch = "Z" -> HighImpedance [] OTHER -> Unknown

reverse(s) == [i \in 1..Len(s) |-> s[Len(s) - i + 1]]

\* the second loop of contentRepr: the cells "0000" are removed from the end
RECURSIVE spliceTrailing(_)
spliceTrailing(cells) ==
    IF cells = <<>> THEN cells
    ELSE IF cells[Len(cells)] = <<"0", "0", "0", "0">>
         THEN spliceTrailing(SubSeq(cells, 1, Len(cells) - 1))
         ELSE cells

\* faulty variant of RAM16by4.contentRepr: the bits of a cell are joined in
\* the order of the array, least significant bit first
contentRepr_notReversed(mem) ==
    LET cells == spliceTrailing([a \in 1..NUM_CELLS |->
                    [j \in 1..WORD_WIDTH |-> toLogicValueRepr(mem[a - 1][j])]])
    IN  IF Len(cells) = 0 THEN [k |-> "undefined", cells |-> <<>>]
        ELSE [k |-> "array", cells |-> cells]

\* RAM16by4.contentRepr: undefined, or the array of the cells
contentRepr(mem) ==
    LET cells == spliceTrailing([a \in 1..NUM_CELLS |->
                    reverse([j \in 1..WORD_WIDTH |-> toLogicValueRepr(mem[a - 1][j])])])
    IN  IF Len(cells) = 0 THEN [k |-> "undefined", cells |-> <<>>]
        ELSE [k |-> "array", cells |-> cells]

\* RAM16by4.toJSON: the fields the RAM adds to those of the base class
RAM_toJSON(S, c) ==
    [nodes |-> toJSONBase(S, c),
     trigger |-> IF S._trigger[c] # "rising" THEN S._trigger[c] ELSE undefined,
     content |-> contentRepr(S.compValue[c].mem)]

\* RAM16by4.savedStateFrom, for saved data that is not null
savedStateFrom(savedData) ==
    IF savedData.content.k = "undefined"
    THEN valueFilledWith(F)
    ELSE LET content == savedData.content.cells
             row(i) == IF i < Len(content)
                       THEN LET savedBits == content[i + 1]
                                len == Len(savedBits)
                            IN  [j \in 1..WORD_WIDTH |->
                                    IF len - (j - 1) - 1 >= 0
                                    THEN toLogicValueFromChar(savedBits[len - (j - 1)])
                                    ELSE F]
                       ELSE FixedArrayFill(F, WORD_WIDTH)
             mem == [i \in 0..(NUM_CELLS - 1) |-> row(i)]
         IN  [mem |-> mem, out |-> mem[0]]

\* the RAM constructor on saved data: the value is that of savedStateFrom,
\* the trigger is the saved one or the default, the remembered clock and the
\* nodes are new
RAM_constructor(S, c, savedData) ==
    LET S1 == ComponentBase_constructor(S, c, savedData.nodes)
    IN  IF S1.error # NoError THEN S1
        ELSE [S1 EXCEPT !.compValue[c] = savedStateFrom(savedData),
                        !._trigger[c] = IF isUndefined(savedData.trigger) THEN "rising" ELSE savedData.trigger,
                        !._lastClock[c] = Unknown]

\* the circuit is saved and loaded again as a new document, in which no id
\* is in use: component c, which has no wire, is replaced by the component
\* constructed from what toJSON returned
Reload(c) ==
    /\ _state[c] # "DEAD"
    /\ kind[c] # "alu"
    /\ LET S == Begin("reload")
           S0 == [Logged(S, "toJSON", c) EXCEPT !.liveNodes = @ \ NodesOf(c, kind[c])]
       IN  IF kind[c] = "ram"
           THEN Install(RAM_constructor(S0, c, RAM_toJSON(S, c)))
           ELSE Install(ComponentBase_constructor(S0, c, toJSONBase(S, c)))

\* the words kept in the memory, and the memories of at most two words that
\* are not 0000
SaveWords == {<<F, F, F, F>>, <<T, F, F, F>>, <<F, T, F, T>>, <<Unknown, F, HighImpedance, T>>}
SaveContents ==
    {[mem |-> [i \in 0..(NUM_CELLS - 1) |-> IF i = k2 THEN w2 ELSE IF i = k1 THEN w1 ELSE <<F, F, F, F>>],
      out |-> <<F, F, F, F>>] :
        k1 \in 0..(NUM_CELLS - 1), k2 \in 0..(NUM_CELLS - 1), w1 \in SaveWords, w2 \in SaveWords}

InitSave ==
    \E trig \in {"rising", "falling"}, content \in SaveContents \cup RAMContents :
        RAMWith(trig, Unknown, F, F, F, <<F, F, F, F>>, <<F, F, F, F>>, content)

NextSave == \E c \in Comps : Reload(c)

SpecSave == InitSave /\ [][NextSave]_vars

(***************************************************************************)
(* Persistence of the nodes: one component of each arity from 0/0 to 2/2,  *)
(* with the ids drawn below, whose outputs the user forces, is saved and   *)
(* constructed again.                                                      *)
(***************************************************************************)
MaxId == 4

\* a component of kind k whose nodes bear the ids given
PlainWith(k, ids) ==
    LET ks == [c \in {1} |-> k]
    IN  /\ kind = ks
        /\ _state = [c \in {1} |-> "SPAWNED"]
        /\ _isMovingWithMouseOffset = [c \in {1} |-> undefined]
        /\ compValue = [c \in {1} |-> F]
        /\ _lastClock = [c \in {1} |-> Unknown]
        /\ _trigger = [c \in {1} |-> "rising"]
        /\ _isAlive = [n \in AllNodes(ks) |-> TRUE]
        /\ _value = [n \in AllNodes(ks) |-> F]
        /\ _forceValue = [n \in AllNodes(ks) |-> undefined]
        /\ id = ids
        /\ _incomingWire = [n \in InputNodes(ks) |-> null]
        /\ _outgoingWires = [n \in OutputNodes(ks) |-> <<>>]
        /\ liveNodes = AllNodes(ks)
        /\ wires = [w \in WireIds |-> NoWire]
        /\ liveWires = {}
        /\ now = 0
        /\ queue = <<>>
        /\ error = NoError
        /\ log = <<[call |-> "new", c |-> 0]>>

\* the ids of the nodes are distinct numbers in any order, as a saved
\* document may give them
InitRepr ==
    \E k \in PlainKinds :
        \E ids \in [NodesOf(1, k) -> 0..MaxId] :
            /\ \A n1, n2 \in NodesOf(1, k) : n1 # n2 => ids[n1] # ids[n2]
            /\ PlainWith(k, ids)

\* the forced values given to the outputs
TriStateForces == {undefined, F, T, Unknown}

NextRepr ==
    \/ \E n \in OutputNodes(kind) : \E v \in TriStateForces : Force(n, v)
    \/ \E c \in Comps : Reload(c)

SpecRepr == InitRepr /\ [][NextRepr]_vars

(***************************************************************************)
(* A circuit to which components are added, newly placed or loaded from a  *)
(* saved representation, and from which components are deleted.            *)
(***************************************************************************)
MaxComps == 2

\* the kinds of the components added
LoadKinds == {"io10", "io01", "io11", "io20"}

\* the object of component c of kind k and those of its nodes, before the
\* constructors have run
Allocate(S, c, k) ==
    LET ns == NodesOf(c, k)
        ins == {n \in ns : ~isOutput(n)}
        ext(f, D, v) == [x \in (DOMAIN f) \cup D |-> IF x \in DOMAIN f THEN f[x] ELSE v]
    IN  [S EXCEPT !.kind = ext(@, {c}, k),
                  !._state = ext(@, {c}, "SPAWNING"),
                  !._isMovingWithMouseOffset = ext(@, {c}, undefined),
                  !.compValue = ext(@, {c}, F),
                  !._lastClock = ext(@, {c}, Unknown),
                  !._trigger = ext(@, {c}, "rising"),
                  !._isAlive = ext(@, ns, FALSE),
                  !._value = ext(@, ns, F),
                  !._forceValue = ext(@, ns, undefined),
                  !.id = ext(@, ns, 0),
                  !._incomingWire = ext(@, ins, null),
                  !._outgoingWires = ext(@, ns \ ins, <<>>)]

\* the saved representations of the nodes of a component of kind k: the ids
\* are distinct numbers in any order, and no output is forced
SavedNodes(k) ==
    {buildNodesRepr([kind |-> <<k>>, id |-> ids, _forceValue |-> [n \in NodesOf(1, k) |-> undefined]], 1) :
        ids \in {f \in [NodesOf(1, k) -> 0..MaxId] : \A n1, n2 \in NodesOf(1, k) : n1 # n2 => f[n1] # f[n2]}}

\* a component of kind k is placed by the user
Place(k) ==
    /\ LastComp < MaxComps
    /\ LET c == LastComp + 1
       IN  Install(ComponentBase_constructor_null(Allocate(Logged(Begin("place"), "new", c), c, k), c))

\* a component of kind k is loaded from saved data; when its construction
\* raises an error no component is added
Load(k, savedData) ==
    /\ LastComp < MaxComps
    /\ LET c == LastComp + 1
           S == Logged(Begin("load"), "new", c)
           R == ComponentBase_constructor(Allocate(S, c, k), c, savedData)
       IN  IF R.error # NoError THEN Install([S EXCEPT !.error = R.error]) ELSE Install(R)

\* the circuit begins with one component, whose nodes bear consecutive ids
\* from 0 or from 1, the inputs first
InitLoad ==
    \E k \in LoadKinds : \E first \in {0, 1} :
        PlainWith(k, [n \in NodesOf(1, k) |-> first + (IF isOutput(n) THEN NumInputs(k) + n[3] ELSE n[3])])

NextLoad ==
    \/ \E k \in LoadKinds : Place(k)
    \/ \E k \in LoadKinds : \E savedData \in SavedNodes(k) : Load(k, savedData)
    \/ \E c \in Comps : Destroy(c)

SpecLoad == InitLoad /\ [][NextLoad]_vars

(***************************************************************************)
(* The life of the components: components with one input and one output   *)
(* are placed or loaded, receive the presses and releases of the mouse,    *)
(* and are deleted, also when they were deleted before.                    *)
(***************************************************************************)
\* the offset of a move, the position of the component less that of the mouse
MouseOffset == "offset"

\* faulty variant of mousePressed: the press that ends the spawning of the
\* component goes on to the test of the move
ComponentBase_mousePressed_noReturn(S, c, canMove) ==
    LET S1 == IF S._state[c] = "SPAWNING" THEN [S EXCEPT !._state[c] = "SPAWNED"] ELSE S
    IN  IF canMove /\ isUndefined(S1._isMovingWithMouseOffset[c])
        THEN [S1 EXCEPT !._isMovingWithMouseOffset[c] = MouseOffset]
        ELSE S1

\* ComponentBase.mousePressed, where canMove is
\* mode >= Mode.CONNECT && (currMouseAction === MouseAction.MOVE || this.isMouseOver())
ComponentBase_mousePressed(S, c, canMove) ==
    IF S._state[c] = "SPAWNING"
    THEN [S EXCEPT !._state[c] = "SPAWNED"]
    ELSE IF canMove /\ isUndefined(S._isMovingWithMouseOffset[c])
         THEN [S EXCEPT !._isMovingWithMouseOffset[c] = MouseOffset]
         ELSE S

\* ComponentBase.mouseReleased
ComponentBase_mouseReleased(S, c) ==
    IF isDefined(S._isMovingWithMouseOffset[c])
    THEN [S EXCEPT !._isMovingWithMouseOffset[c] = undefined]
    ELSE S

\* the mouse is pressed on component c
MousePressed(c, canMove) ==
    Install(ComponentBase_mousePressed(Begin("mousePressed"), c, canMove))

\* the mouse is released on component c
MouseReleased(c) ==
    Install(ComponentBase_mouseReleased(Begin("mouseReleased"), c))

\* destroy is called on a component that was destroyed before
DestroyAgain(c) ==
    /\ _state[c] = "DEAD"
    /\ Install(ComponentBase_destroy(Begin("destroy"), c))

LifeKind == "io11"

\* the saved representations loaded: the input and the output bear the ids
\* 0 and 1, or 2 and 3
LifeSaved ==
    {buildNodesRepr([kind |-> <<LifeKind>>,
                     id |-> [n \in NodesOf(1, LifeKind) |-> first + (IF isOutput(n) THEN 1 ELSE 0)],
                     _forceValue |-> [n \in NodesOf(1, LifeKind) |-> undefined]], 1) :
        first \in {0, 2}}

\* the circuit begins with one restored component, whose nodes bear the ids
\* 0 and 1, or 1 and 2
InitLife ==
    \E first \in {0, 1} :
        PlainWith(LifeKind, [n \in NodesOf(1, LifeKind) |-> first + (IF isOutput(n) THEN 1 ELSE 0)])

NextLife ==
    \/ Place(LifeKind)
    \/ \E savedData \in LifeSaved : Load(LifeKind, savedData)
    \/ \E c \in Comps : \E canMove \in BOOLEAN : MousePressed(c, canMove)
    \/ \E c \in Comps : MouseReleased(c)
    \/ \E c \in Comps : Destroy(c)
    \/ \E c \in Comps : DestroyAgain(c)

SpecLife == InitLife /\ [][NextLife]_vars

(***************************************************************************)
(* An output node that its owner assigns, the user forces and the editor   *)
(* draws: the output of a component without inputs, wired without delay   *)
(* to input A0 of an ALU.                                                  *)
(***************************************************************************)
SourceOut == OutNode(1, 0)
SinkIn == InNode(2, 0)

\* the forced values of an output (Node.ts 285-289), undefined for none
AllForces == LogicValue \cup {undefined}

\* faulty variant of showForcedWarning: the visible value is not tested for
\* Unknown
showForcedWarning_visibleUntested(S, n, full) ==
    full /\ ~isUnknown(S._value[n]) /\ S._value[n] # NodeValue(S, n)

\* NodeBase.doDraw: showForcedWarning, where full is mode >= Mode.FULL
showForcedWarning(S, n, full) ==
    full /\ ~isUnknown(S._value[n]) /\ ~isUnknown(NodeValue(S, n)) /\ S._value[n] # NodeValue(S, n)

\* NodeBase.doDraw: nothing is assigned; the warning handed to drawWaypoint
\* is logged when it is raised
NodeBase_doDraw(S, n, full) ==
    IF showForcedWarning(S, n, full) THEN Logged(S, "showForcedWarning", parent(n)) ELSE S

\* the editor draws node n
Draw(n, full) ==
    /\ _isAlive[n]
    /\ Install(NodeBase_doDraw(Begin("doDraw"), n, full))

\* the owner of output node n assigns its computed value
Assign(n, v) ==
    /\ _isAlive[n]
    /\ Install(NodeBase_setValue(Begin("setValue"), n, v))

InitForce == Constructed(<<"io01", "alu">>)

NextForce ==
    \/ \E v \in AllForces : Force(SourceOut, v)
    \/ \E v \in LogicValue : Assign(SourceOut, v)
    \/ Connect(SourceOut, SinkIn, 0)
    \/ \E full \in BOOLEAN : Draw(SourceOut, full)
    \/ Drain

SpecForce == InitForce /\ [][NextForce]_vars

(***************************************************************************)
(* Two ALUs whose inputs hold the same A, B and opcode and different       *)
(* values of Cin, recalculated one after the other.                        *)
(***************************************************************************)
PairWords == {WordOf(0), WordOf(1), WordOf(6), WordOf(15), <<Unknown, T, F, T>>, <<T, HighImpedance, F, F>>}

\* two freshly constructed ALUs whose inputs hold the values given, before
\* they recalculate
ALUPairWith(a, b, op1, op0, cin1, cin2) ==
    LET k == <<"alu", "alu">>
        in(c) == a \o b \o <<op0, op1, IF c = 1 THEN cin1 ELSE cin2>>
    IN  /\ kind = k
        /\ _state = [c \in DOMAIN k |-> "SPAWNED"]
        /\ _isMovingWithMouseOffset = [c \in DOMAIN k |-> undefined]
        /\ compValue = [c \in DOMAIN k |-> InitialValue("alu")]
        /\ _lastClock = [c \in DOMAIN k |-> Unknown]
        /\ _trigger = [c \in DOMAIN k |-> "rising"]
        /\ _isAlive = [n \in AllNodes(k) |-> TRUE]
        /\ _value = [n \in AllNodes(k) |-> IF isOutput(n) THEN F ELSE in(parent(n))[n[3] + 1]]
        /\ _forceValue = [n \in AllNodes(k) |-> undefined]
        /\ id = [n \in AllNodes(k) |-> newID(n)]
        /\ _incomingWire = [n \in InputNodes(k) |-> null]
        /\ _outgoingWires = [n \in OutputNodes(k) |-> <<>>]
        /\ liveNodes = AllNodes(k)
        /\ wires = [w \in WireIds |-> NoWire]
        /\ liveWires = {}
        /\ now = 0
        /\ queue = <<>>
        /\ error = NoError
        /\ log = <<[call |-> "new", c |-> 0]>>

InitPair ==
    \E a \in PairWords, b \in PairWords, op1 \in {F, T}, op0 \in {F, T},
       cin1 \in LogicValue, cin2 \in LogicValue :
        /\ cin1 # cin2
        /\ ALUPairWith(a, b, op1, op0, cin1, cin2)

\* the components of the circuit are recalculated, in order
RecalcAll ==
    Install(recalcValue(recalcValue(Begin("recalcAll"), 1), 2))

NextPair == RecalcAll

SpecPair == InitPair /\ [][NextPair]_vars

(***************************************************************************)
(* Properties of the node/wire graph, checked under Spec.                  *)
(***************************************************************************)
NodeZ == OutNode(1, ALU_Z)
NodeA0 == InNode(1, 0)
NodeB0 == InNode(1, 4)

\* the visible value of node n in the current state
Visible(n) == NodeValue(Cur, n)

\* an update of wire w is pending
Pending(w) == \E i \in 1..Len(queue) : queue[i].wire = w

\* the number of events of the queue a step keeps, and the events it appends
KeptLen ==
    IF Handler(log') = "drain"
    THEN Len(SelectSeq(queue, LAMBDA e : e.time > now))
    ELSE Len(queue)
Appended == SubSeq(queue', KeptLen + 1, Len(queue'))

\* the updates a step hands to the wires that start at output node n
UpdatesFrom(n) == SelectSeq(Appended, LAMBDA e : wires'[e.wire].startNode = n)

\* the number of input transitions a handler performs itself
Transitions ==
    CASE Handler(log') \in {"connect", "disconnect"} -> 1
      [] Handler(log') = "reconnect" -> 2
      [] Handler(log') = "drain" -> Len(queue) - KeptLen
      [] OTHER -> 0

\* U is, for each value of a chain of changes leading from old to new, one
\* update per wire of ws, in the order of ws, due after the wire's delay
UpdatesPerChange(U, ws, old, new) ==
    LET m == Len(ws)
        first(p) == p - ((p - 1) % m)
    IN  IF m = 0 THEN U = <<>>
        ELSE IF U = <<>> THEN new = old
        ELSE /\ Len(U) % m = 0
             /\ \A p \in 1..Len(U) :
                  /\ U[p].wire = ws[((p - 1) % m) + 1]
                  /\ U[p].time = now + wires'[U[p].wire].delay
                  /\ U[p].val = U[first(p)].val
             /\ U[1].val # old
             /\ \A p \in 1..Len(U) : p + m <= Len(U) => U[p + m].val # U[p].val
             /\ U[Len(U)].val = new

\* C1: every change of the visible value of an output node hands exactly one
\* update carrying the new visible value to each outgoing wire, due after the
\* wire's delay, and an assignment that leaves the visible value unchanged
\* hands none.  A step that makes at most one change (a force, a connect, a
\* disconnect, a drain of one event) hands at most one update per wire; a
\* drain of several events hands one per change.  (A reconnect is a
\* disconnect followed by a connect.)
C1_OneUpdatePerVisibleChange ==
    [][Handler(log') # "reconnect" =>
         \A n \in OutputNodes(kind) :
            /\ UpdatesPerChange(UpdatesFrom(n), _outgoingWires'[n], Visible(n), Visible(n)')
            /\ (Handler(log') # "drain" \/ Transitions = 1) =>
                 Len(UpdatesFrom(n)) = IF Visible(n)' # Visible(n) THEN Len(_outgoingWires'[n]) ELSE 0]_vars

\* a forced value was set on an output with two outgoing wires, and each wire
\* holds one update carrying the new visible value
C1_Witness ==
    /\ Handler(log) = "forceValue"
    /\ Len(_outgoingWires[NodeZ]) = 2
    /\ Len(queue) = 2
    /\ \A i \in 1..2 :
         /\ queue[i].wire = _outgoingWires[NodeZ][i]
         /\ queue[i].val = Visible(NodeZ)
         /\ queue[i].val # _value[NodeZ]

\* C2: the visible value of an output node is its forced value when one is
\* defined, and its computed value otherwise
C2_VisibleValue ==
    \A n \in OutputNodes(kind) :
        /\ _forceValue[n] # undefined => Visible(n) = _forceValue[n]
        /\ _forceValue[n] = undefined => Visible(n) = _value[n]

\* an output is forced to a value that differs from its computed value
C2_Witness ==
    /\ _forceValue[NodeZ] = T
    /\ _value[NodeZ] = F
    /\ Visible(NodeZ) = T

\* C3: an input node with an incoming wire (the wire and both nodes alive)
\* holds the visible value of the start node whenever no update is pending on
\* the wire
C3_InputMirrorsStart ==
    \A n \in InputNodes(kind) :
        LET w == _incomingWire[n]
        IN  (~isNull(w) /\ Wire_isAlive(Cur, w) /\ ~Pending(w)) =>
                _value[n] = Visible(wires[w].startNode)

\* a drain delivered the forced value of the start node, which differs from
\* its computed value, to the input at the end of a wire with delay
C3_Witness ==
    /\ Handler(log) = "drain"
    /\ Len(Calls(log, "setNeedsRecalc")) = 1
    /\ ~isNull(_incomingWire[NodeA0])
    /\ wires[_incomingWire[NodeA0]].delay = 1
    /\ ~Pending(_incomingWire[NodeA0])
    /\ isNull(_incomingWire[NodeB0])
    /\ _forceValue[NodeZ] = T
    /\ _value[NodeZ] = F
    /\ _value[NodeA0] = T

\* C4: attaching an incoming wire sets the input's value at once to the
\* visible value of the start node, detaching it sets the value to false, and
\* the owner is notified exactly when the input's value changed (a reconnect
\* notifies once for each of its two assignments that changed the value)
C4_AttachDetach ==
    [][\A n \in InputNodes(kind) :
          LET notified == Len(SelectSeq(log', LAMBDA x : x.call = "setNeedsRecalc" /\ x.c = parent(n)))
          IN  /\ (Handler(log') = "connect" /\ isNull(_incomingWire[n]) /\ ~isNull(_incomingWire'[n])) =>
                    /\ _value'[n] = Visible(wires'[_incomingWire'[n]].startNode)
                    /\ notified = IF _value'[n] # _value[n] THEN 1 ELSE 0
              /\ (Handler(log') = "disconnect" /\ ~isNull(_incomingWire[n]) /\ isNull(_incomingWire'[n])) =>
                    /\ _value'[n] = F
                    /\ notified = IF _value'[n] # _value[n] THEN 1 ELSE 0
              /\ (Handler(log') = "reconnect" /\ \E n1 \in WiredOutputs : \E d \in Delays(n) : Reconnect(n1, n, d)) =>
                    notified = (IF _value[n] # F THEN 1 ELSE 0) + (IF _value'[n] # F THEN 1 ELSE 0)]_vars

\* a wire with delay was attached to an input whose start node is forced to
\* true: the input is true at once and the owner was notified once
C4_Witness ==
    /\ Handler(log) = "connect"
    /\ error = "none"
    /\ now = 0
    /\ isNull(_incomingWire[NodeB0])
    /\ ~isNull(_incomingWire[NodeA0])
    /\ wires[_incomingWire[NodeA0]].delay = 1
    /\ _forceValue[NodeZ] = T
    /\ _value[NodeA0] = T
    /\ Len(Calls(log, "setNeedsRecalc")) = 1

\* C5: an input node has no incoming wire or one; its incomingWire is w
\* exactly when w is a wire that was not destroyed and ends at the node, and
\* such a wire is registered once among the outgoing wires of its start node
C5_WiringConsistent ==
    /\ \A n \in InputNodes(kind) :
          /\ _incomingWire[n] \in {null} \cup WireIds
          /\ \A w \in WireIds :
                _incomingWire[n] = w <=> (w \in liveWires /\ wires[w].endNode = n)
    /\ \A w \in liveWires :
          LET ws == _outgoingWires[wires[w].startNode]
          IN  Cardinality({i \in 1..Len(ws) : ws[i] = w}) = 1

\* the first of two wires of an output was disconnected: the other is still
\* attached and registered
C5_Witness ==
    /\ Handler(log) = "disconnect"
    /\ isNull(_incomingWire[NodeA0])
    /\ ~isNull(_incomingWire[NodeB0])
    /\ _outgoingWires[NodeZ] = <<_incomingWire[NodeB0]>>
    /\ _isAlive[NodeZ]

\* the state of the graph: wires, wire lists and node values
graph == <<_incomingWire, _outgoingWires, wires, liveWires, _value, _forceValue,
           compValue, queue, _isAlive, liveNodes>>

\* C6: connecting to an input node that has an incoming wire, or to an
\* output node, fails with a WiringError and leaves the graph unchanged
C6_WiringError ==
    [][\A n1 \in WiredOutputs : \A n2 \in WiredInputs \cup OutputNodes(kind) : \A d \in {0, 1} :
          (Handler(log') = "connect" /\ (isOutput(n2) \/ ~isNull(_incomingWire[n2])) /\ Connect(n1, n2, d)) =>
              /\ error' = "WiringError"
              /\ UNCHANGED graph]_vars

\* a connect failed on an input that keeps its wire and its value
C6_Witness ==
    /\ Handler(log) = "connect"
    /\ error = "WiringError"
    /\ ~isNull(_incomingWire[NodeA0])
    /\ _value[NodeA0] = T
    /\ Len(log) = 1

\* the last due update of the wire that ends at input n, if the wire is alive
\* and has one; otherwise the value of n
AfterDrain(n) ==
    LET w   == _incomingWire[n]
        due == SelectSeq(dueInOrder(queue, 0, now), LAMBDA p : queue[p].wire = w)
    IN  IF ~isNull(w) /\ Wire_isAlive(Cur, w) /\ due # <<>>
        THEN queue[due[Len(due)]].val
        ELSE _value[n]

\* C7: an update never runs in the step that schedules it, even without
\* delay: outside a drain an input changes only when its own wire is attached,
\* detached or replaced, and a drain changes an input only by the updates
\* that were due (time <= now) when the drain began
C7_NeverSynchronous ==
    [][\A n \in InputNodes(kind) :
          /\ Handler(log') \in {"forceValue", "advance", "destroy"} => _value'[n] = _value[n]
          /\ (Handler(log') \in {"connect", "disconnect"} /\ _incomingWire'[n] = _incomingWire[n]) =>
                _value'[n] = _value[n]
          /\ (Handler(log') = "reconnect" /\ ~\E n1 \in WiredOutputs : \E d \in {0, 1} : Reconnect(n1, n, d)) =>
                _value'[n] = _value[n]
          /\ Handler(log') = "drain" => _value'[n] = AfterDrain(n)]_vars

\* a force changed the visible value of the start of a wire without delay:
\* the update is due now and the input still holds the old value
C7_Witness ==
    /\ Handler(log) = "forceValue"
    /\ ~isNull(_incomingWire[NodeA0])
    /\ Wire_isAlive(Cur, _incomingWire[NodeA0])
    /\ wires[_incomingWire[NodeA0]].delay = 0
    /\ queue = <<[time |-> now, wire |-> _incomingWire[NodeA0], val |-> Visible(NodeZ)]>>
    /\ _value[NodeA0] # Visible(NodeZ)

\* the positions of the events a drain fired, in the order it fired them
Fired(l) == [i \in 1..Len(Calls(l, "fire")) |-> Calls(l, "fire")[i].c]

\* C8: a drain fires exactly the due events, by due time, and events of equal
\* due time in the order they were scheduled; the updates of one change are
\* scheduled in the order of the outgoing wires, which is the order in which
\* the wires were added, each for now + its wire's delay
C8_FiringOrder ==
    [][/\ Handler(log') = "drain" =>
            LET P == Fired(log')
            IN  /\ {P[i] : i \in 1..Len(P)} = {p \in 1..Len(queue) : queue[p].time <= now}
                /\ Len(P) = Cardinality({p \in 1..Len(queue) : queue[p].time <= now})
                /\ \A i, j \in 1..Len(P) :
                      i < j => \/ queue[P[i]].time < queue[P[j]].time
                               \/ queue[P[i]].time = queue[P[j]].time /\ P[i] < P[j]
       /\ \A n1 \in WiredOutputs : \A n2 \in WiredInputs : \A d \in Delays(n2) :
            (Handler(log') = "connect" /\ error' = "none" /\ Connect(n1, n2, d)) =>
                /\ Len(_outgoingWires'[n1]) = Len(_outgoingWires[n1]) + 1
                /\ SubSeq(_outgoingWires'[n1], 1, Len(_outgoingWires[n1])) = _outgoingWires[n1]
                /\ wires'[_outgoingWires'[n1][Len(_outgoingWires'[n1])]].endNode = n2
       /\ Handler(log') = "forceValue" =>
            \A p, q \in 1..Len(Appended) :
                LET ws == _outgoingWires[NodeZ]
                    at(e) == CHOOSE i \in 1..Len(ws) : ws[i] = e.wire
                IN  /\ Appended[p].time = now + wires[Appended[p].wire].delay
                    /\ p < q => at(Appended[p]) < at(Appended[q])]_vars

\* a drain fired the update of the wire with the smaller delay first, though
\* it was scheduled second
C8_Witness ==
    /\ Handler(log) = "drain"
    /\ Fired(log) = <<2, 1>>
    /\ Len(_outgoingWires[NodeZ]) = 2
    /\ wires[_outgoingWires[NodeZ][1]].delay = 1
    /\ wires[_outgoingWires[NodeZ][2]].delay = 0

\* C9: a step recalculates at most once for each input transition it
\* performs itself (one for a connect or a disconnect, two for a reconnect,
\* one for each event due when a drain begins): the updates an output change
\* schedules, also on a feedback wire without delay, wait for a later drain
C9_BoundedStep ==
    [][Len(Calls(log', "recalc")) <= Transitions]_vars

\* a drain fired one update of a feedback wire without delay; the owner
\* recalculated once, its output changed, and the next update of the wire is
\* due now and waits
C9_Witness ==
    /\ Handler(log) = "drain"
    /\ Len(Calls(log, "fire")) = 1
    /\ Len(Calls(log, "recalc")) = 1
    /\ ~isNull(_incomingWire[NodeA0])
    /\ wires[_incomingWire[NodeA0]].startNode = NodeZ
    /\ wires[_incomingWire[NodeA0]].delay = 0
    /\ \E i \in 1..Len(queue) :
         /\ queue[i].wire = _incomingWire[NodeA0]
         /\ queue[i].time <= now
         /\ queue[i].val = Visible(NodeZ)
         /\ queue[i].val # _value[NodeA0]

\* the positions in log l of the events fired, and the calls made while the
\* i-th of them fired
FireIdx(l) == SelectSeq([i \in 1..Len(l) |-> i], LAMBDA i : l[i].call = "fire")
Segment(l, i) ==
    LET idx == FireIdx(l)
    IN  SubSeq(l, idx[i] + 1, IF i < Len(idx) THEN idx[i + 1] - 1 ELSE Len(l))

\* the i-th event a drain fires (P the positions fired) is an input
\* transition: its wire is alive and its value differs from the value its end
\* node has by then (that of the last event fired before it on the same wire,
\* or the value the node had when the drain began)
IsTransition(P, i) ==
    LET e     == queue[P[i]]
        n     == wires[e.wire].endNode
        prior == {j \in 1..(i - 1) : queue[P[j]].wire = e.wire}
        last  == CHOOSE j \in prior : \A k \in prior : k <= j
        before == IF prior = {} THEN _value[n] ELSE queue[P[last]].val
    IN  Wire_isAlive(Cur, e.wire) /\ e.val # before

\* C11: each change of the value of an input node makes the owner recalculate
\* exactly once, in the same step and before the next input transition: while
\* an event of a drain fires, the owner is notified and recalculates once when
\* the event changes the input and not at all otherwise, and commits at most
\* once; a force, a connect, a disconnect, a destroy or an advance
\* recalculates once for each input whose value it changed; a reconnect once
\* for the detach and once for the attach that changed the value; a step with
\* one recalculation commits exactly when the value of the component changed
C11_OneRecalcPerTransition ==
    [][/\ Handler(log') = "drain" =>
            LET P == Fired(log')
            IN  \A i \in 1..Len(P) :
                   LET seg == Segment(log', i)
                       k   == IF IsTransition(P, i) THEN 1 ELSE 0
                   IN  /\ Len(Calls(seg, "setNeedsRecalc")) = k
                       /\ Len(Calls(seg, "recalc")) = k
                       /\ Len(Calls(seg, "commit")) <= k
                       /\ k = 1 => seg[1].call = "setNeedsRecalc" /\ seg[2].call = "recalc"
       /\ Handler(log') \in {"forceValue", "connect", "disconnect", "destroy", "advance"} =>
            Len(Calls(log', "recalc")) = Cardinality({n \in InputNodes(kind) : _value'[n] # _value[n]})
       /\ \A n \in WiredInputs :
            (Handler(log') = "reconnect" /\ \E n1 \in WiredOutputs : \E d \in Delays(n) : Reconnect(n1, n, d)) =>
                Len(Calls(log', "recalc")) = (IF _value[n] # F THEN 1 ELSE 0) + (IF _value'[n] # F THEN 1 ELSE 0)
       /\ Len(Calls(log', "recalc")) = 1 =>
            Len(Calls(log', "commit")) = IF compValue' # compValue THEN 1 ELSE 0]_vars

\* a drain fired two events that each changed an input of the ALU: the owner
\* recalculated twice, once after each
C11_Witness ==
    /\ Handler(log) = "drain"
    /\ Len(Calls(log, "fire")) = 2
    /\ Len(Calls(log, "recalc")) = 2
    /\ Len(Calls(Segment(log, 1), "recalc")) = 1
    /\ Len(Calls(Segment(log, 2), "recalc")) = 1
    /\ _value[NodeA0] = T
    /\ _value[NodeB0] = T

(***************************************************************************)
(* Properties of destruction, checked under SpecTwo.                       *)
(***************************************************************************)
NodeZTwo == OutNode(1, ALU_Z)

\* wire w was destroyed, or one of its nodes was (it left the registry)
WireDestroyed(w) ==
    \/ w \notin liveWires
    \/ wires[w].startNode \notin liveNodes
    \/ wires[w].endNode \notin liveNodes

\* C12: an event that becomes due after its wire, one of the wire's nodes or
\* their component was destroyed is a silent no-op: the drain raises no
\* error, makes no call while such an event fires (no notification, no
\* recalculation), changes the value of no input node that no event of an
\* intact wire reaches, in particular of no dead or unconnected input node,
\* and when all its events are such it changes nothing but the queue
C12_CancelledEventIsNoOp ==
    [][Handler(log') = "drain" =>
         LET P == Fired(log')
             cancelled(i) == WireDestroyed(queue[P[i]].wire)
         IN  /\ error' = NoError
             /\ \A i \in 1..Len(P) : cancelled(i) => Segment(log', i) = <<>>
             /\ \A n \in InputNodes(kind) :
                   (\/ ~_isAlive[n]
                    \/ isNull(_incomingWire[n])
                    \/ \A i \in 1..Len(P) : cancelled(i) \/ wires[queue[P[i]].wire].endNode # n) =>
                       _value'[n] = _value[n]
             /\ (\A i \in 1..Len(P) : cancelled(i)) =>
                   /\ _value' = _value
                   /\ compValue' = compValue
                   /\ Appended = <<>>
                   /\ UNCHANGED <<_incomingWire, _outgoingWires, liveWires, liveNodes, _isAlive>>]_vars

\* the second ALU was deleted with its input still wired to the output of the
\* first, which is forced to true; a drain fired the update carrying true, the
\* last one of the wire, and the input is still false: nothing was recalculated
C12_Witness ==
    /\ Handler(log) = "drain"
    /\ Len(Calls(log, "fire")) = 1
    /\ Len(log) = 2
    /\ queue = <<>>
    /\ _state[2] = "DEAD"
    /\ _state[1] = "SPAWNED"
    /\ ~isNull(_incomingWire[NodeA0Two])
    /\ Visible(NodeZTwo) = T
    /\ _value[NodeA0Two] = F

\* C13: destroying a node removes it from the registry of live nodes and
\* detaches every wire attached to it: no wire has a dead start node or a dead
\* end node, the incoming wire of no live input node starts at a dead node, and
\* no list of outgoing wires holds a wire to or from a dead node
C13_NoWireAtDeadNode ==
    /\ liveNodes = {n \in AllNodes(kind) : _isAlive[n]}
    /\ \A w \in liveWires : _isAlive[wires[w].startNode] /\ _isAlive[wires[w].endNode]
    /\ \A n \in InputNodes(kind) :
          (_isAlive[n] /\ ~isNull(_incomingWire[n])) => _isAlive[wires[_incomingWire[n]].startNode]
    /\ \A n \in OutputNodes(kind) : \A i \in 1..Len(_outgoingWires[n]) :
          LET w == _outgoingWires[n][i]
          IN  _isAlive[wires[w].startNode] /\ _isAlive[wires[w].endNode]

\* C14: destroying a component marks it DEAD and destroys each of its nodes
\* (not alive, out of the registry); both nodes of every wire attached to one
\* of them are then dead, and no further update is scheduled on a wire with a
\* dead node
C14_DestroyComponent ==
    [][/\ \A c \in Comps :
            (Handler(log') = "destroy" /\ _state[c] # "DEAD" /\ _state'[c] = "DEAD") =>
                /\ \A n \in NodesOf(c, kind[c]) : ~_isAlive'[n] /\ n \notin liveNodes'
                /\ \A w \in liveWires :
                      (parent(wires[w].startNode) = c \/ parent(wires[w].endNode) = c) =>
                          ~_isAlive'[wires[w].startNode] /\ ~_isAlive'[wires[w].endNode]
       /\ \A i \in 1..Len(Appended) :
            LET w == Appended[i].wire
            IN  _isAlive[wires'[w].startNode] /\ _isAlive[wires'[w].endNode]]_vars

(***************************************************************************)
(* Properties of one recalculation of the RAM, checked under SpecRAM.      *)
(***************************************************************************)
\* what the RAM sees at its inputs, and what it retains
RamClock == Visible(InNode(1, RAM_Clock))
RamWE == Visible(InNode(1, RAM_WriteEnable))
RamClear == Visible(InNode(1, RAM_Clear))
RamData == [i \in 1..4 |-> Visible(InNode(1, RAM_Data[i]))]
RamAddrBits == [i \in 1..4 |-> Visible(InNode(1, RAM_Address[i]))]
RamAddrKnown == \A i \in 1..4 : RamAddrBits[i] \in {F, T}
RamAddr == asNumber(RamAddrBits[1]) + 2 * asNumber(RamAddrBits[2])
           + 4 * asNumber(RamAddrBits[3]) + 8 * asNumber(RamAddrBits[4])
RamMem == compValue[1].mem
RamOut == compValue[1].out
RamQ == [i \in 1..4 |-> _value[OutNode(1, RAM_Q[i])]]
Zero4 == <<F, F, F, F>>
Unknown4 == <<Unknown, Unknown, Unknown, Unknown>>

\* the edge trigger fires on the remembered and the present clock value
EdgeFires ==
    \/ _trigger[1] = "rising" /\ _lastClock[1] = F /\ RamClock = T
    \/ _trigger[1] = "falling" /\ _lastClock[1] = T /\ RamClock = F

C16_UnknownAddress ==
    [][(/\ Handler(log') = "recalcValue"
        /\ RamClear # T
        /\ \E i \in 1..4 : RamAddrBits[i] = Unknown) =>
          /\ RamOut' = Unknown4
          /\ RamQ' = Unknown4
          /\ RamMem' = RamMem]_vars

\* C17: a recalculation of the RAM that sees Clear not true, a known address
\* k, WriteEnable = true and a clock transition matching the trigger makes
\* word k the 4 Data values, puts that word on the output, and leaves the 15
\* other words unchanged
C17_Write ==
    [][(/\ Handler(log') = "recalcValue"
        /\ RamClear # T
        /\ RamAddrKnown
        /\ RamWE = T
        /\ EdgeFires) =>
          /\ RamMem'[RamAddr] = RamData
          /\ RamOut' = RamData
          /\ RamQ' = RamData
          /\ \A i \in (0..15) \ {RamAddr} : RamMem'[i] = RamMem[i]]_vars

\* word 0101 (bit 0 first: false, true, false, true) was written to address 9
\* of the memory that held a word of its own in each cell: cell 9 and the
\* output hold it, and the neighbouring cells hold their words
C17_Witness ==
    /\ Handler(log) = "recalcValue"
    /\ Len(Calls(log, "commit")) = 1
    /\ RamClear = F /\ RamWE = T
    /\ _trigger[1] = "falling" /\ RamClock = F
    /\ RamAddrKnown /\ RamAddr = 9
    /\ RamData = <<F, T, F, T>>
    /\ RamMem[9] = RamData
    /\ RamMem[9] # WordOf(15 - 9)
    /\ RamMem[8] = WordOf(15 - 8)
    /\ RamMem[10] = WordOf(15 - 10)
    /\ RamOut = RamData
    /\ RamQ = RamData

\* C19: a recalculation of the RAM that sees Clear not true and WriteEnable =
\* true commits a write exactly when the edge trigger fires on the remembered
\* and the present clock value (rising: false then true; falling: true then
\* false): when it fires, the word at a known address becomes the Data values;
\* when the two values are equal, or either is Unknown or HighImpedance, or
\* the transition is the opposite one, no memory word changes
C19_WriteOnlyOnEdge ==
    [][(/\ Handler(log') = "recalcValue"
        /\ RamClear # T
        /\ RamWE = T) =>
          /\ (EdgeFires /\ RamAddrKnown) => RamMem'[RamAddr] = RamData
          /\ ~EdgeFires => RamMem' = RamMem
          /\ (\/ _lastClock[1] = RamClock
              \/ _lastClock[1] \in {Unknown, HighImpedance}
              \/ RamClock \in {Unknown, HighImpedance}) => RamMem' = RamMem
          /\ RamMem' # RamMem =>
                \/ _trigger[1] = "rising" /\ _lastClock[1] = F /\ RamClock = T
                \/ _trigger[1] = "falling" /\ _lastClock[1] = T /\ RamClock = F]_vars

\* a rising-edge RAM was recalculated with WriteEnable = true and the clock
\* high, and the word at the address is not the Data word: the trigger did
\* not fire, the memory holds its words and the output is the stored word
C19_Witness ==
    /\ Handler(log) = "recalcValue"
    /\ RamClear = F /\ RamWE = T
    /\ _trigger[1] = "rising" /\ RamClock = T /\ _lastClock[1] = T
    /\ RamAddrKnown /\ RamAddr = 10
    /\ RamData = <<F, T, F, T>>
    /\ \A i \in 0..(NUM_CELLS - 1) : RamMem[i] = WordOf(15 - i)
    /\ RamOut = WordOf(15 - 10)
    /\ RamQ = RamOut

(***************************************************************************)
(* Properties of the recalculation contract, checked under SpecComp.       *)
(***************************************************************************)
\* C10: a recalculation that no input change asked for yields the last
\* committed value: it commits nothing, changes no output node's value and
\* schedules no wire update; and a step that recalculates once commits
\* exactly when the recalculated value differs from the last committed one
C10_RecalcIdempotent ==
    [][/\ Handler(log') = "recalcValue" =>
            /\ Calls(log', "recalc") # <<>>
            /\ Calls(log', "commit") = <<>>
            /\ compValue' = compValue
            /\ _value' = _value
            /\ queue' = queue
       /\ \A c \in Comps :
            Len(Calls(log', "recalc")) <= 1 =>
                Len(Calls(log', "commit")) = IF compValue'[c] # compValue[c] THEN 1 ELSE 0]_vars

\* the RAM was recalculated after a committed write (write enabled, the clock
\* high and remembered high, the written word on the wired output) and
\* committed nothing
C10_Witness ==
    /\ kind[1] = "ram"
    /\ Handler(log) = "recalcValue"
    /\ Calls(log, "commit") = <<>>
    /\ _value[InNode(1, RAM_WriteEnable)] = T
    /\ _value[InNode(1, RAM_Clock)] = T
    /\ _lastClock[1] = T
    /\ _value[InNode(1, RAM_Data[2])] = T
    /\ compValue[1].out = <<F, T, F, F>>
    /\ _value[FedOutput] = T
    /\ ~isNull(_incomingWire[FedInput])

\* the recalculation of this step commits a write: WriteEnable is true and the
\* trigger fires on the clock remembered before the step and the clock seen
\* in it
WritesNow ==
    /\ RamWE' = T
    /\ isClockTrigger(_trigger[1], _lastClock[1], RamClock')

\* C18: a word written to address k stays readable: every step leaves word k
\* as it is unless it clears or writes to address k, writes to other
\* addresses, clock toggles with WriteEnable false and Data changes included;
\* a recalculation that presents address k with Clear not true and performs
\* no write returns word k; and no non-writing, non-clearing recalculation
\* changes a word of the memory
C18_ReadAfterWrite ==
    [][kind[1] = "ram" =>
        /\ Calls(log', "recalc") = <<>> => RamMem' = RamMem
        /\ (Len(Calls(log', "recalc")) = 1 /\ RamClear' # T) =>
            /\ \A k \in 0..(NUM_CELLS - 1) :
                ~(WritesNow /\ RamAddrKnown' /\ RamAddr' = k) => RamMem'[k] = RamMem[k]
            /\ (~WritesNow /\ RamAddrKnown') => RamOut' = RamMem[RamAddr']
            /\ ~WritesNow => RamMem' = RamMem]_vars

\* C34: after every step in which the RAM recalculates, Clear true or not,
\* the remembered clock is the value of the Clock input that the
\* recalculation saw; and a recalculation writes only when the Clock input
\* differs from the value it had at the preceding recalculation, which is
\* its value before the step, every change of an input being followed by a
\* recalculation
C34_LastClockIsPreviousClock ==
    [][kind[1] = "ram" =>
        /\ Calls(log', "recalc") # <<>> => _lastClock'[1] = RamClock'
        /\ (Len(Calls(log', "recalc")) = 1 /\ RamClear' # T /\ WritesNow) => RamClock' # RamClock]_vars

\* C35: after every step in which the RAM recalculates, when Clear is not
\* true and the address is known, the output word is the stored word of the
\* address, and the output nodes carry it; also when the recalculation
\* writes
C35_OutputIsAddressedWord ==
    [][(/\ kind[1] = "ram"
        /\ Calls(log', "recalc") # <<>>
        /\ RamClear' # T
        /\ RamAddrKnown') =>
            /\ RamOut' = RamMem'[RamAddr']
            /\ RamQ' = RamOut']_vars

\* the RAM has just written the word 0100 at address 1, over a memory whose
\* word 0 is 0100 already, and the output nodes carry the word
C35_Witness ==
    /\ kind[1] = "ram"
    /\ Handler(log) = "setInput"
    /\ Calls(log, "commit") # <<>>
    /\ RamClear = F /\ RamWE = T /\ RamClock = T
    /\ RamAddrKnown /\ RamAddr = 1
    /\ RamMem[0] = <<F, T, F, F>>
    /\ RamMem[1] = <<F, T, F, F>>
    /\ RamQ = <<F, T, F, F>>

(***************************************************************************)
(* Properties of one recalculation of the ALU, checked under SpecALU.      *)
(***************************************************************************)
\* what the ALU sees at its inputs, and what it shows at its outputs
AluA == [i \in 1..4 |-> Visible(InNode(1, ALU_A[i]))]
AluB == [i \in 1..4 |-> Visible(InNode(1, ALU_B[i]))]
AluOp0 == Visible(InNode(1, ALU_Op[1]))
AluOp1 == Visible(InNode(1, ALU_Op[2]))
AluCin == Visible(InNode(1, ALU_Cin))
AluOutputs == <<[i \in 1..4 |-> _value[OutNode(1, ALU_S[i])]], _value[OutNode(1, ALU_V)], _value[OutNode(1, ALU_Z)]>>

KnownWord(w) == \A i \in 1..4 : w[i] \in {F, T}
NumOf(w) == asNumber(w[1]) + 2 * asNumber(w[2]) + 4 * asNumber(w[3]) + 8 * asNumber(w[4])
Bool(p) == IF p THEN T ELSE F

\* the value of a 4-bit result r with flag v: the word, the flag, and the
\* zero flag
ResultOf(r, v) == <<WordOf(r), Bool(v), Bool(r = 0)>>

\* the four operations on known operands, by arithmetic on numbers
SumOf(a, b, cin) == ResultOf((NumOf(a) + NumOf(b) + asNumber(cin)) % 16, NumOf(a) + NumOf(b) + asNumber(cin) >= 16)
DifferenceOf(a, b) == ResultOf((NumOf(a) - NumOf(b) + 16) % 16, NumOf(b) > NumOf(a))
BitwiseOr(a, b) == <<[i \in 1..4 |-> Bool(a[i] = T \/ b[i] = T)], F, Bool(\A i \in 1..4 : a[i] = F /\ b[i] = F)>>
BitwiseAnd(a, b) == <<[i \in 1..4 |-> Bool(a[i] = T /\ b[i] = T)], F, Bool(\A i \in 1..4 : a[i] = F \/ b[i] = F)>>

AllUnknown == <<Unknown4, Unknown, Unknown>>

\* C20: a recalculation of the ALU computes, on known operands, the sum for
\* (Op1, Op0) = 00, the difference for 01, the bitwise or for 10 and the
\* bitwise and for 11; when either opcode bit is Unknown or HighImpedance the
\* value and the six output nodes S0..S3, V, Z are Unknown whatever A, B and
\* Cin are
C20_OpcodeSelects ==
    [][(Handler(log') = "recalcValue" /\ kind[1] = "alu") =>
          /\ (KnownWord(AluA) /\ KnownWord(AluB)) =>
                /\ (AluOp1 = F /\ AluOp0 = F /\ AluCin \in {F, T}) =>
                        compValue'[1] = SumOf(AluA, AluB, AluCin)
                /\ (AluOp1 = F /\ AluOp0 = T) => compValue'[1] = DifferenceOf(AluA, AluB)
                /\ (AluOp1 = T /\ AluOp0 = F) => compValue'[1] = BitwiseOr(AluA, AluB)
                /\ (AluOp1 = T /\ AluOp0 = T) => compValue'[1] = BitwiseAnd(AluA, AluB)
          /\ (AluOp1 \notin {F, T} \/ AluOp0 \notin {F, T}) =>
                /\ compValue'[1] = AllUnknown
                /\ AluOutputs' = AllUnknown
          /\ Calls(log', "commit") # <<>> => AluOutputs' = compValue'[1]]_vars

\* the ALU computed 3 - 1 = 2 under opcode 01, with the carry input set: the
\* sum would be 5, the bitwise or 3, the bitwise and 1
C20_Witness ==
    /\ kind[1] = "alu"
    /\ Handler(log) = "recalcValue"
    /\ Len(Calls(log, "commit")) = 1
    /\ AluA = WordOf(3) /\ AluB = WordOf(1)
    /\ AluOp1 = F /\ AluOp0 = T /\ AluCin = T
    /\ compValue[1] = <<WordOf(2), F, F>>
    /\ AluOutputs = <<WordOf(2), F, F>>

(***************************************************************************)
(* Properties of the four operations of the ALU, checked under SpecArith.  *)
(***************************************************************************)
\* the recalculation of this step ran the operation named
AluRuns(op) ==
    /\ Handler(log') = "recalcValue"
    /\ kind[1] = "alu"
    /\ <<AluOp1, AluOp0>> = CASE op = "add" -> <<F, F>> [] op = "sub" -> <<F, T>>
                              [] op = "or" -> <<T, F>> [] op = "and" -> <<T, T>>

\* C21: an addition on known A, B and Cin yields S = (A + B + Cin) mod 16,
\* bit 0 first, V true exactly when A + B + Cin >= 16 and Z true exactly when
\* S = 0000, for every A and B in 0..15 and both values of Cin; the output
\* nodes show the value once it is committed
C21_AddKnown ==
    [][(AluRuns("add") /\ KnownWord(AluA) /\ KnownWord(AluB) /\ AluCin \in {F, T}) =>
          LET n == NumOf(AluA) + NumOf(AluB) + asNumber(AluCin)
          IN  /\ compValue'[1][1] = WordOf(n % 16)
              /\ compValue'[1][2] = Bool(n >= 16)
              /\ compValue'[1][3] = Bool(n % 16 = 0)
              /\ (AluA = WordOf(0) /\ AluB = WordOf(0) /\ AluCin = F) =>
                    compValue'[1] = <<<<F, F, F, F>>, F, T>>
              /\ (AluA = WordOf(1) /\ AluB = WordOf(1) /\ AluCin = F) =>
                    compValue'[1] = <<<<F, T, F, F>>, F, F>>
              /\ Calls(log', "commit") # <<>> => AluOutputs' = compValue'[1]]_vars

\* the ALU added 15 + 1 + 0: the sum is 0000 with overflow and zero set
C21_Witness ==
    /\ kind[1] = "alu"
    /\ Handler(log) = "recalcValue"
    /\ Len(Calls(log, "commit")) = 1
    /\ AluOp1 = F /\ AluOp0 = F /\ AluCin = F
    /\ AluA = WordOf(15) /\ AluB = WordOf(1)
    /\ compValue[1] = <<WordOf(0), T, T>>
    /\ AluOutputs = <<WordOf(0), T, T>>

\* the rule of one bit position of the addition: U counts the operands among
\* a, b and the carry-in that are Unknown or HighImpedance, S sums the known
\* ones; the result is the sum bit and the carry-out
Indeterminate(v) == v \in {Unknown, HighImpedance}
BitRule(a, b, c) ==
    LET U == (IF Indeterminate(a) THEN 1 ELSE 0) + (IF Indeterminate(b) THEN 1 ELSE 0)
             + (IF Indeterminate(c) THEN 1 ELSE 0)
        S == asNumber(a) + asNumber(b) + asNumber(c)
    IN  IF U = 0 THEN <<Bool(S % 2 = 1), Bool(S >= 2)>>
        ELSE IF U = 1 /\ S >= 2 THEN <<Unknown, T>>
        ELSE <<Unknown, Unknown>>

\* the carry entering bit position i (1..4) and leaving position 4 (i = 5)
\* when every position below follows the rule
RECURSIVE RuleCarry(_, _, _, _)
RuleCarry(a, b, cin, i) ==
    IF i = 1 THEN cin ELSE BitRule(a[i - 1], b[i - 1], RuleCarry(a, b, cin, i - 1))[2]

\* C22: every bit position of an addition follows the rule on (a, b,
\* carry-in), a HighImpedance operand counting like an Unknown one: with no
\* indeterminate operand the sum bit is S mod 2 and the carry-out S >= 2, with
\* one and S >= 2 the carry-out is true and the sum bit Unknown, otherwise
\* both are Unknown; so the four sum bits and the last carry-out V are those
\* of the rule applied from Cin upwards
C22_BitRule ==
    [][AluRuns("add") =>
          /\ \A i \in 1..4 :
                compValue'[1][1][i] = BitRule(AluA[i], AluB[i], RuleCarry(AluA, AluB, AluCin, i))[1]
          /\ compValue'[1][2] = RuleCarry(AluA, AluB, AluCin, 5)]_vars

\* the carry-out of bit position i of the addition is not determined: an
\* operand of the position is indeterminate and the rule of one indeterminate
\* operand with S >= 2 does not apply
CarryUndetermined(i) == BitRule(AluA[i], AluB[i], RuleCarry(AluA, AluB, AluCin, i))[2] = Unknown

\* C23: when the carry-out of bit position i of an addition is not
\* determined, sum bit i and every sum bit above it are Unknown, and so is
\* the overflow output V
C23_CarryPoisoning ==
    [][AluRuns("add") =>
          \A i \in 1..4 :
              CarryUndetermined(i) =>
                  /\ \A j \in i..4 : compValue'[1][1][j] = Unknown
                  /\ compValue'[1][2] = Unknown]_vars

\* C24: whatever the operation and the inputs, the recalculated Z is true
\* only if the four result bits are false, and is Unknown whenever a result
\* bit is Unknown, wherever that bit stands relative to a true one
C24_ZeroFlag ==
    [][(Handler(log') = "recalcValue" /\ kind[1] = "alu") =>
          /\ compValue'[1][3] = T => compValue'[1][1] = <<F, F, F, F>>
          /\ (\E i \in 1..4 : compValue'[1][1][i] = Unknown) => compValue'[1][3] = Unknown]_vars

\* C25: a subtraction with an operand bit of A or B that is Unknown or
\* HighImpedance yields Unknown on all six outputs S0..S3, V and Z
C25_SubIndeterminate ==
    [][(AluRuns("sub") /\ (~KnownWord(AluA) \/ ~KnownWord(AluB))) =>
          /\ compValue'[1] = AllUnknown
          /\ AluOutputs' = AllUnknown]_vars

\* C26: a subtraction on known A and B yields S = (A - B) mod 16, 16 being
\* added to a negative difference, bit 0 first, V true exactly when B > A and
\* Z true exactly when S = 0000, for every A and B in 0..15; sub(0001, 0010)
\* gives S = 1111 and V = true; the output nodes show the value once it is
\* committed
C26_SubKnown ==
    [][(AluRuns("sub") /\ KnownWord(AluA) /\ KnownWord(AluB)) =>
          LET d == NumOf(AluA) - NumOf(AluB)
              r == IF d < 0 THEN d + 16 ELSE d
          IN  /\ r \in 0..15
              /\ compValue'[1][1] = WordOf(r)
              /\ compValue'[1][2] = Bool(NumOf(AluB) > NumOf(AluA))
              /\ compValue'[1][3] = Bool(r = 0)
              /\ (AluA = WordOf(1) /\ AluB = WordOf(2)) =>
                    /\ compValue'[1][1] = <<T, T, T, T>>
                    /\ compValue'[1][2] = T
              /\ Calls(log', "commit") # <<>> => AluOutputs' = compValue'[1]]_vars

\* the ALU computed 1 - 2: the result is 1111 with the borrow set
C26_Witness ==
    /\ kind[1] = "alu"
    /\ Handler(log) = "recalcValue"
    /\ Len(Calls(log, "commit")) = 1
    /\ AluOp1 = F /\ AluOp0 = T
    /\ AluA = WordOf(1) /\ AluB = WordOf(2)
    /\ compValue[1] = <<WordOf(15), T, F>>
    /\ AluOutputs = <<WordOf(15), T, F>>

\* the dominance rule of the two logic operations on four-valued operands
AndRule(a, b) == IF a = F \/ b = F THEN F ELSE IF a = T /\ b = T THEN T ELSE Unknown
OrRule(a, b) == IF a = T \/ b = T THEN T ELSE IF a = F /\ b = F THEN F ELSE Unknown

\* C27: each result bit of the and and of the or operation follows the
\* dominance rule on its two operand bits, a HighImpedance operand behaving
\* like an Unknown one (and is false with a false operand, true with two true
\* ones, Unknown otherwise; or is true with a true operand, false with two
\* false ones, Unknown otherwise), and V is false
C27_Dominance ==
    [][/\ AluRuns("and") =>
            /\ \A i \in 1..4 : compValue'[1][1][i] = AndRule(AluA[i], AluB[i])
            /\ \A i \in 1..4 :
                /\ (AluA[i] = F /\ Indeterminate(AluB[i])) => compValue'[1][1][i] = F
                /\ (AluA[i] = T /\ Indeterminate(AluB[i])) => compValue'[1][1][i] = Unknown
            /\ compValue'[1][2] = F
       /\ AluRuns("or") =>
            /\ \A i \in 1..4 : compValue'[1][1][i] = OrRule(AluA[i], AluB[i])
            /\ \A i \in 1..4 :
                /\ (AluA[i] = T /\ Indeterminate(AluB[i])) => compValue'[1][1][i] = T
                /\ (AluA[i] = F /\ Indeterminate(AluB[i])) => compValue'[1][1][i] = Unknown
            /\ compValue'[1][2] = F
       /\ (AluRuns("and") \/ AluRuns("or")) =>
            (Calls(log', "commit") # <<>> => AluOutputs' = compValue'[1])]_vars

\* the ALU computed the or of 1111 and a word whose bit 0 is HighImpedance:
\* the true operand decides bit 0
C27_Witness ==
    /\ kind[1] = "alu"
    /\ Handler(log) = "recalcValue"
    /\ Len(Calls(log, "commit")) = 1
    /\ AluOp1 = T /\ AluOp0 = F
    /\ AluA = <<T, T, T, T>> /\ AluB = <<HighImpedance, F, F, F>>
    /\ compValue[1] = <<<<T, T, T, T>>, F, F>>
    /\ AluOutputs = <<<<T, T, T, T>>, F, F>>

(***************************************************************************)
(* Properties of the persistence of the RAM, checked under SpecSave.       *)
(***************************************************************************)
\* the string of word w: its four bits as characters, bit 3 first
BitString(w) == <<toLogicValueRepr(w[4]), toLogicValueRepr(w[3]), toLogicValueRepr(w[2]), toLogicValueRepr(w[1])>>
\* the addresses above the last word that is not 0000
Trailing(mem) == {a \in 0..(NUM_CELLS - 1) : \A b \in a..(NUM_CELLS - 1) : mem[b] = Zero4}

\* C28: saving the memory and constructing a RAM from the saved content
\* yields the same word at each of the 16 addresses; the saved content holds
\* the 4-character string, most significant bit first, of each word below the
\* trailing words 0000, and is absent when all words are 0000; the trailing
\* words are 0000 again and a word 0000 below another word keeps its address
C28_RoundTrip ==
    [][Handler(log') = "reload" =>
          LET saved == contentRepr(RamMem)
          IN  /\ \A a \in 0..(NUM_CELLS - 1) : RamMem'[a] = RamMem[a]
              /\ saved.k = "undefined" <=> \A a \in 0..(NUM_CELLS - 1) : RamMem[a] = Zero4
              /\ Len(saved.cells) = NUM_CELLS - Cardinality(Trailing(RamMem))
              /\ \A a \in 0..(NUM_CELLS - 1) :
                    /\ a \notin Trailing(RamMem) => saved.cells[a + 1] = BitString(RamMem[a])
                    /\ a \in Trailing(RamMem) => RamMem'[a] = Zero4]_vars

\* a RAM was constructed from the saved content of a memory holding 1010
\* (bit 0 first: false, true, false, true) at address 2 and a word with an
\* Unknown and a HighImpedance bit at address 5, with 0000 between them and
\* above
C28_Witness ==
    /\ Handler(log) = "reload"
    /\ RamMem[2] = <<F, T, F, T>>
    /\ RamMem[5] = <<Unknown, F, HighImpedance, T>>
    /\ \A a \in (0..(NUM_CELLS - 1)) \ {2, 5} : RamMem[a] = Zero4
    /\ contentRepr(RamMem).cells = << <<"0", "0", "0", "0">>, <<"0", "0", "0", "0">>, <<"1", "0", "1", "0">>,
                                      <<"0", "0", "0", "0">>, <<"0", "0", "0", "0">>, <<"1", "Z", "0", "?">> >>

(***************************************************************************)
(* Properties of the persistence of the nodes, checked under SpecRepr.     *)
(***************************************************************************)
\* the ids of the inputs and of the outputs of the component, in order, and
\* the forced values of its outputs
InputIds == [i \in 1..NumInputs(kind[1]) |-> id[InNode(1, i - 1)]]
OutputIds == [i \in 1..NumOutputs(kind[1]) |-> id[OutNode(1, i - 1)]]
OutputForces == [i \in 1..NumOutputs(kind[1]) |-> _forceValue[OutNode(1, i - 1)]]

SavedRepr == buildNodesRepr(Cur, 1)

\* the entries of a list of the representation
Entries(list) == {list.v[i] : i \in 1..Len(list.v)}

\* the list of the representation is that of the nodes given: the bare
\* element for one node, an array otherwise, in the order of the nodes
ListOf(list, ids) ==
    /\ list.k = IF Len(ids) = 1 THEN "direct" ELSE "array"
    /\ Len(list.v) = Len(ids)
    /\ \A i \in 1..Len(ids) : list.v[i].id = ids[i]

\* C30: the representation saved for a component has no field when it has
\* neither inputs nor outputs, the single field id when it has only inputs or
\* only outputs, and the two fields in and out when it has both; a list of one
\* node is the bare element; an output is saved as {id, force} exactly when it
\* has a forced value, and as its id otherwise; an input is saved as its id
C30_CompactRepr ==
    [][Handler(log') = "reload" =>
          LET ni == NumInputs(kind[1])
              no == NumOutputs(kind[1])
          IN  /\ (ni = 0 /\ no = 0) => DOMAIN SavedRepr = {}
              /\ (ni # 0 /\ no = 0) => DOMAIN SavedRepr = {"id"} /\ ListOf(SavedRepr["id"], InputIds)
              /\ (ni = 0 /\ no # 0) => DOMAIN SavedRepr = {"id"} /\ ListOf(SavedRepr["id"], OutputIds)
              /\ (ni # 0 /\ no # 0) =>
                    /\ DOMAIN SavedRepr = {"in", "out"}
                    /\ ListOf(SavedRepr["in"], InputIds)
                    /\ ListOf(SavedRepr["out"], OutputIds)
              /\ ni # 0 =>
                    \A e \in Entries(SavedRepr[IF no # 0 THEN "in" ELSE "id"]) :
                        e.k = "id" /\ e.force = undefined
              /\ no # 0 =>
                    LET out == SavedRepr[IF ni # 0 THEN "out" ELSE "id"]
                    IN  \A i \in 1..no :
                            /\ out.v[i].k = "object" <=> OutputForces[i] # undefined
                            /\ out.v[i].k = "id" <=> OutputForces[i] = undefined
                            /\ OutputForces[i] = undefined => out.v[i].force = undefined
                            /\ OutputForces[i] = T => out.v[i].force = "1"
                            /\ OutputForces[i] = F => out.v[i].force = "0"
                            /\ OutputForces[i] = Unknown => out.v[i].force = "?"]_vars

\* a component of one input and two outputs was saved: the input as a bare
\* id, the outputs as an array of an id and of an {id, force}
C30_Witness ==
    /\ Handler(log) = "reload"
    /\ kind[1] = "io12"
    /\ OutputForces = <<undefined, F>>
    /\ SavedRepr["in"] = [k |-> "direct", v |-> <<[k |-> "id", id |-> InputIds[1], force |-> undefined]>>]
    /\ SavedRepr["out"] = [k |-> "array",
                           v |-> <<[k |-> "id", id |-> OutputIds[1], force |-> undefined],
                                   [k |-> "object", id |-> OutputIds[2], force |-> "0"]>>]

(***************************************************************************)
(* Properties of the node ids, checked under SpecLoad.                     *)
(***************************************************************************)
\* the ids borne by the live nodes
IdsInUse == {id[n] : n \in liveNodes}

\* no two live nodes bear the same id
UniqueIds == \A n1, n2 \in liveNodes : n1 # n2 => id[n1] # id[n2]

\* the nodes made in this step bear ids that no live node bore, and the
\* nodes made before are as they were
MadeWithFreeIds ==
    /\ liveNodes' = liveNodes \cup NodesOf(LastComp', kind'[LastComp'])
    /\ \A n \in liveNodes' \ liveNodes : id'[n] \notin IdsInUse
    /\ \A n \in DOMAIN id : id'[n] = id[n] /\ _isAlive'[n] = _isAlive[n]

\* C31: the ids of the live nodes are unique; a load adds a component only
\* when no id of its saved representation is borne by a live node, and
\* fails otherwise with a MappingError that changes neither the live nodes
\* nor any component or node made before; the nodes of a newly placed
\* component bear ids that no live node bore
C31_UniqueIds ==
    /\ UniqueIds
    /\ [][/\ UniqueIds'
          /\ (Handler(log') = "load" /\ error' = NoError) => MadeWithFreeIds
          /\ (Handler(log') = "load" /\ error' # NoError) =>
                /\ error' = "MappingError"
                /\ UNCHANGED <<kind, _state, _isMovingWithMouseOffset, compValue, _lastClock, _trigger, _isAlive, _value,
                               _forceValue, id, _incomingWire, _outgoingWires, liveNodes,
                               wires, liveWires, now, queue>>
          /\ Handler(log') = "place" => error' = NoError /\ MadeWithFreeIds]_vars

\* the load of a component failed with a MappingError while a component with
\* two live nodes was in the circuit
C31_Witness ==
    /\ Handler(log) = "load"
    /\ error = "MappingError"
    /\ Comps = {1}
    /\ Cardinality(liveNodes) = 2

(***************************************************************************)
(* Properties of a forced output node, checked under SpecForce.            *)
(***************************************************************************)
\* the step raised the warning of the node drawn
FlagRaised == Calls(log', "showForcedWarning") # <<>>

\* the forced value of the output is defined and differs from its computed
\* value
Mismatch == isDefined(_forceValue[SourceOut]) /\ _forceValue[SourceOut] # _value[SourceOut]

\* C32 as stated: when the node is drawn in the mode that shows forced
\* values, the warning is raised exactly when the forced value is defined
\* and differs from the computed value
C32_FlagOnEveryMismatch ==
    [][Draw(SourceOut, TRUE) => (FlagRaised <=> Mismatch)]_vars

\* C32, amended: the warning is raised exactly when the node is drawn in the
\* mode that shows forced values, the forced value is defined and differs
\* from the computed value, and neither of the two is Unknown; drawing the
\* node changes neither its computed, forced and visible values nor the
\* updates handed to the wires, nor anything else
C32_AdvisoryFlag ==
    [][\A full \in BOOLEAN :
          Draw(SourceOut, full) =>
             /\ FlagRaised <=> /\ full
                               /\ Mismatch
                               /\ ~isUnknown(_forceValue[SourceOut])
                               /\ ~isUnknown(_value[SourceOut])
             /\ Visible(SourceOut)' = Visible(SourceOut)
             /\ UNCHANGED <<kind, _state, _isMovingWithMouseOffset, compValue, _lastClock, _trigger, _isAlive, _value,
                            _forceValue, id, _incomingWire, _outgoingWires, liveNodes,
                            wires, liveWires, now, queue>>]_vars

\* the node was drawn with the warning raised while it was forced to
\* HighImpedance over a computed value of true, with an update pending on
\* its wire
C32_Witness ==
    /\ Handler(log) = "doDraw"
    /\ Calls(log, "showForcedWarning") # <<>>
    /\ _forceValue[SourceOut] = HighImpedance
    /\ _value[SourceOut] = T
    /\ Len(queue) > 0

\* C33: while an output node has a forced value, an assignment of a computed
\* value stores it and hands no update to a wire, the visible value staying
\* the forced one; when the force is cleared the visible value becomes the
\* stored computed value, and each outgoing wire is handed one update, which
\* carries that value, exactly when it differs from the forced value that
\* was in effect
C33_ForcedShadowsComputed ==
    [][/\ \A v \in LogicValue :
            ((Assign(SourceOut, v) /\ isDefined(_forceValue[SourceOut])) =>
                (/\ _value'[SourceOut] = v
                 /\ _forceValue' = _forceValue
                 /\ Visible(SourceOut)' = Visible(SourceOut)
                 /\ queue' = queue))
          /\ (/\ Handler(log') = "forceValue"
              /\ isDefined(_forceValue[SourceOut])
              /\ isUndefined(_forceValue'[SourceOut])) =>
                /\ _value' = _value
                /\ Visible(SourceOut)' = _value[SourceOut]
                /\ Len(Appended) = IF _value[SourceOut] # _forceValue[SourceOut]
                                   THEN Len(_outgoingWires[SourceOut]) ELSE 0
                /\ \A i \in 1..Len(Appended) :
                      /\ Appended[i].wire = _outgoingWires[SourceOut][i]
                      /\ Appended[i].val = _value[SourceOut]]_vars

\* the force of a wired output was cleared after a computed value that
\* differs from the forced one had been assigned under it: the update of
\* the wire carries the computed value
C33_Witness ==
    /\ Handler(log) = "forceValue"
    /\ isUndefined(_forceValue[SourceOut])
    /\ _value[SourceOut] = Unknown
    /\ Len(_outgoingWires[SourceOut]) = 1
    /\ Len(queue) = 2
    /\ queue[1].val = T
    /\ queue[2].val = Unknown

(***************************************************************************)
(* Properties of the carry input of the ALU, checked under SpecPair.       *)
(***************************************************************************)
\* the visible values of the inputs of ALU c at the indices, and the
\* computed values of its output nodes
PairInputs(c, inds) == [i \in 1..Len(inds) |-> Visible(InNode(c, inds[i]))]
PairOutputs(c) ==
    <<[i \in 1..4 |-> _value[OutNode(c, ALU_S[i])]], _value[OutNode(c, ALU_V)], _value[OutNode(c, ALU_Z)]>>

\* the opcode of both ALUs is that of a subtraction, an or or an and
NotAdd == <<Visible(InNode(1, ALU_Op[2])), Visible(InNode(1, ALU_Op[1]))>> \in {<<F, T>>, <<T, F>>, <<T, T>>}

\* C36: two ALUs with the same A, B and opcode of sub, or or and, and with
\* different values of Cin, have the same S, V and Z once both are
\* recalculated, in their committed values and on their output nodes
C36_CinIgnored ==
    [][(/\ Handler(log') = "recalcAll"
        /\ NotAdd
        /\ PairInputs(1, ALU_A \o ALU_B \o ALU_Op) = PairInputs(2, ALU_A \o ALU_B \o ALU_Op)
        /\ Visible(InNode(1, ALU_Cin)) # Visible(InNode(2, ALU_Cin))) =>
            /\ compValue'[1] = compValue'[2]
            /\ PairOutputs(1)' = PairOutputs(2)']_vars

\* two ALUs have subtracted 1 from 6, one with Cin true and one with Cin
\* Unknown, and both show 5 without borrow
C36_Witness ==
    /\ Handler(log) = "recalcAll"
    /\ PairInputs(1, ALU_A) = WordOf(6) /\ PairInputs(2, ALU_A) = WordOf(6)
    /\ PairInputs(1, ALU_B) = WordOf(1) /\ PairInputs(2, ALU_B) = WordOf(1)
    /\ PairInputs(1, ALU_Op) = <<T, F>> /\ PairInputs(2, ALU_Op) = <<T, F>>
    /\ Visible(InNode(1, ALU_Cin)) = T
    /\ Visible(InNode(2, ALU_Cin)) = Unknown
    /\ PairOutputs(1) = <<WordOf(5), F, F>>
    /\ PairOutputs(2) = <<WordOf(5), F, F>>

(***************************************************************************)
(* Properties of the life of a component, checked under SpecLife           *)
(***************************************************************************)
\* the component that a step adds to the circuit, 0 when it adds none
Added == IF DOMAIN _state' = DOMAIN _state THEN 0 ELSE LastComp + 1

\* C37: the lifecycle of a component is monotone.  A newly placed component
\* starts SPAWNING and a restored one starts SPAWNED; the state of a
\* component changes only from SPAWNING to SPAWNED, on a mouse press which
\* starts no move, and from any state to DEAD, on destroy; the first press
\* on a SPAWNING component makes it SPAWNED and destroy makes a component
\* DEAD; on a DEAD component no mouse press, mouse release or further
\* destroy changes the state; no component returns to SPAWNING; and a node
\* that was destroyed is never alive again.
C37_LifecycleMonotone ==
    [][ /\ Handler(log') = "place" => Added # 0 /\ _state'[Added] = "SPAWNING"
        /\ (Handler(log') = "load" /\ error' = NoError) => Added # 0 /\ _state'[Added] = "SPAWNED"
        /\ \A c \in Comps :
              /\ c \in DOMAIN _state'
              /\ _state'[c] # _state[c] =>
                    \/ /\ _state[c] = "SPAWNING" /\ _state'[c] = "SPAWNED"
                       /\ Handler(log') = "mousePressed"
                       /\ isUndefined(_isMovingWithMouseOffset'[c])
                    \/ _state'[c] = "DEAD" /\ Handler(log') = "destroy"
              /\ (\A canMove \in BOOLEAN :
                    MousePressed(c, canMove) /\ _state[c] = "SPAWNING" =>
                        _state'[c] = "SPAWNED" /\ isUndefined(_isMovingWithMouseOffset'[c]))
              /\ (Destroy(c) \/ DestroyAgain(c)) =>
                    _state'[c] = "DEAD" /\ \A n \in NodesOf(c, kind[c]) : ~_isAlive'[n]
              /\ _state[c] = "DEAD" => _state'[c] = "DEAD"
              /\ _state'[c] = "SPAWNING" => _state[c] = "SPAWNING"
        /\ \A n \in DOMAIN _isAlive : ~_isAlive[n] => n \in DOMAIN _isAlive' /\ ~_isAlive'[n]
      ]_vars

\* a component that was placed, pressed and destroyed, after a mouse press
\* on it that met the test of the move, and after a further destroy
C37_Witness ==
    \E c \in Comps :
        /\ c > 1
        /\ _state[c] = "DEAD"
        /\ isDefined(_isMovingWithMouseOffset[c])
        /\ Handler(log) = "destroy"
        /\ \A n \in NodesOf(c, kind[c]) : ~_isAlive[n]

====
